---------------------------- MODULE Spec2Model ----------------------------
(***************************************************************************)
(* Model of the stm32g4xx-hal drivers.                                     *)
(*                                                                         *)
(* Part 1: the FMAC (filter math accelerator) driver, src/src/fmac.rs.     *)
(* The FMAC peripheral is a record of its registers plus the load counter  *)
(* the hardware keeps while a "load" function is active.  Every register   *)
(* access performed by the driver is appended to a trace (log for the      *)
(* configuration calls, io for the most recent runtime call).              *)
(***************************************************************************)
EXTENDS Integers, Sequences, FiniteSets, TLC

\* ------------------------------------------------------------------ bounds
\* Slice lengths 0..MaxSmall are explored next to the boundary lengths below.
MaxSmall == 3
\* Number of runtime calls (read / write) explored on a configured handle.
MaxOps == 2

\* --------------------------------------------------------- program values
\* enum Func
LoadX1 == 1
LoadX2 == 2
LoadY == 3
FuncFir == 8
FuncIir == 9

\* enum Gain (X1 = 0 .. X128 = 7)
Gain == 0..7

\* Lengths tried for the arguments of fir(): small ones and the boundaries of
\* the (2..=127) check and of write_y's len <= 255 assertion.
FirTapLens == (0..MaxSmall) \cup {127, 128}
FirYLens == (0..MaxSmall) \cup {255, 256}
\* Lengths tried for the arguments of IirConfig::new: small ones and the
\* boundaries of 2 <= len(B) <= 64 and 1 <= len(A) <= len(B) - 1.
IirX1Lens == (0..MaxSmall) \cup {64}
IirBLens == (0..MaxSmall) \cup {64, 65}
IirALens == (0..MaxSmall) \cup {63, 64}
IirYLens == (0..MaxSmall) \cup {63}

\* A slice of n distinct I1F15 values (as their i16 bit patterns, of both
\* signs); different seeds give slices with different elements.
Slice(seed, n) == [i \in 1..n |-> ((seed + i * 257) % 65536) - 32768]
Seed == [x1 |-> 11, b |-> 5003, a |-> 32003, y |-> 40009]

\* `x.to_bits() as u16`: the two's complement bit pattern of an i16.
ToBitsU16(v) == IF v < 0 THEN v + 65536 ELSE v
FromBitsI16_Boundary(u) == IF u > 32768 THEN u - 65536 ELSE u
\* `I1F15::from_bits(bits as i16)`
FromBitsI16(u) == IF u >= 32768 THEN u - 65536 ELSE u
\* `n as u8`
AsU8(n) == n % 256

VARIABLES
    pc,       \* "reset", "write_x1", "write_x2", "write_y", "finish", "running", "panicked"
    func,     \* "none", "fir" or "iir": the configuration call in progress / done
    newArgs,  \* arguments of the IirConfig::new call made so far (some = FALSE: none)
    cfg,      \* the IirConfig value constructed (some = FALSE: none)
    sl,       \* the slices and gain used by the running fir()/iir() call
    bases,    \* locals of init_buffers: x1_base_addr, x2_base_addr, y_base_addr
    fmac,     \* the FMAC peripheral: registers and the hardware's load counter
    log,      \* register accesses performed by fir()/iir(), in order
    panic,    \* the assertion that failed ("" when none did)
    io,       \* register accesses performed by the most recent runtime call
    call,     \* the most recent runtime call: its name and argument
    ret,      \* what the most recent runtime call returned
    nops      \* number of runtime calls made

fmacVars == <<pc, func, newArgs, cfg, sl, bases, fmac, log, panic, io, call, ret, nops>>

VARIABLES
    task,     \* the blocking runtime call in progress and what is left of it
    hw        \* the accelerator's buffer occupancy behind the status flags

ioVars == <<task, hw>>

VARIABLES
    owner,       \* observable.rs: where each peripheral value is: 0 with the
                 \* caller (exclusive), w >= 1 inside the w-th Observed
    mode,        \* the configuration (type state) of each peripheral value
    obs,         \* the Observed values created so far, in order of creation
    tokens       \* per observe call, where the tokens it created are

obsVars == <<owner, mode, obs, tokens>>

VARIABLES
    codec        \* a sample on its way through the WDATA / RDATA conversions

codecVars == <<codec>>

VARIABLES
    i2c,         \* i2c.rs: the I2C peripheral (ISR flags, CR2) and the bus behind it
    xfer,        \* the I2C driver call in progress: where it is and what it did
    iwdg,        \* independent_watchdog.rs: the IWDG registers and the call in progress
    eev          \* hrtim/external_event.rs: the EECR fields and the builders in use

\* The drivers of parts 4 to 6, and those of parts 1 to 3.
others == <<i2c, xfer, iwdg, eev>>
core == <<fmacVars, ioVars, obsVars, codecVars>>

\* The variables of the other parts of the model, which the steps of one part
\* leave alone.
beyondFmac == <<ioVars, obsVars, codecVars, others>>
beyondIo == <<obsVars, codecVars, others>>
beyondObs == <<fmacVars, ioVars, codecVars, others>>
beyondCodec == <<fmacVars, ioVars, obsVars, others>>

vars == <<fmacVars, ioVars, obsVars, codecVars, others>>

\* ------------------------------------------------------------- the hardware
NoParam == [p |-> 0, q |-> 0, r |-> 0, func |-> 0, start |-> 0]
NoBufCfg == [base |-> 0, size |-> 0, wm |-> 0]
\* Register values after FMAC::reset (FMAC_SR resets with YEMPTY set).
FmacReset ==
    [x1bufcfg |-> NoBufCfg, x2bufcfg |-> NoBufCfg, ybufcfg |-> NoBufCfg,
     param |-> NoParam, remaining |-> 0, x1full |-> FALSE, yempty |-> TRUE,
     rdata |-> 0]

\* The number of values a load function expects: P for Load X1 / Load Y,
\* P + Q (N + M) for Load X2.
Announced(v) == IF v.func = LoadX2 THEN v.p + v.q ELSE v.p

IsLoad(v) == v.func \in {LoadX1, LoadX2, LoadY}

\* A write of PARAM.  With START set on a load function the hardware waits for
\* the announced number of values and clears START when they have arrived.
HwParamWrite(f, v) ==
    IF v.start = 1 /\ IsLoad(v)
    THEN [f EXCEPT !.remaining = Announced(v),
                   !.param = [v EXCEPT !.start = IF Announced(v) > 0 THEN 1 ELSE 0]]
    ELSE [f EXCEPT !.remaining = 0, !.param = v]

\* A write of WDATA.  While a load function is active the value goes to the
\* buffer being loaded and the function completes after the last one.
HwWdataWrite(f, bits) ==
    IF f.param.start = 1 /\ IsLoad(f.param)
    THEN [f EXCEPT !.remaining = f.remaining - 1,
                   !.param.start = IF f.remaining - 1 > 0 THEN 1 ELSE 0]
    ELSE f

\* Len(s) successive writes of WDATA, in closed form: each write made while
\* the load is active counts one value, and the write that brings the counter
\* to zero completes the load; later writes find no load active.
HwStream(f, s) ==
    IF f.param.start = 1 /\ IsLoad(f.param)
    THEN IF Len(s) >= f.remaining
         THEN [f EXCEPT !.remaining = 0, !.param.start = 0]
         ELSE [f EXCEPT !.remaining = f.remaining - Len(s)]
    ELSE f

\* ------------------------------------------------------------- trace entries
WParam(v) == [op |-> "w", reg |-> "PARAM", val |-> v]
RParam(v) == [op |-> "r", reg |-> "PARAM", val |-> v]
WBufCfg(reg, v) == [op |-> "w", reg |-> reg, val |-> v]
WWdata(bits) == [op |-> "w", reg |-> "WDATA", val |-> bits]
RRdata(bits) == [op |-> "r", reg |-> "RDATA", val |-> bits]
RSr(f) == [op |-> "r", reg |-> "SR", val |-> [x1full |-> f.x1full, yempty |-> f.yempty]]
RccEnable == [op |-> "w", reg |-> "RCC.enable", val |-> 1]
RccReset == [op |-> "w", reg |-> "RCC.reset", val |-> 1]

\* `for x in s { wdata.write(x.to_bits() as u16) }`
Encode(s) == [i \in 1..Len(s) |-> ToBitsU16(s[i])]
WdataWrites(s) == [i \in 1..Len(s) |-> WWdata(s[i])]

\* ------------------------------------------------------------ IirConfig::new
NoSlices == [some |-> FALSE, x1 |-> <<>>, b |-> <<>>, a |-> <<>>, y |-> <<>>, r |-> 0]
Slices(x1, b, a, y, r) == [some |-> TRUE, x1 |-> x1, b |-> b, a |-> a, y |-> y, r |-> r]

\* The assertions of IirConfig::new, in order; `initial_b.len() - 1` is only
\* evaluated after 2 <= initial_b.len() was asserted.
IirConfigNewAccepts_NoX1Check(x1, b, a, y) ==
    /\ Len(x1) <= 255
    /\ Len(b) + Len(a) <= 255
    /\ Len(y) <= 255
    /\ 2 <= Len(b) /\ Len(b) <= 64
    /\ 1 <= Len(a) /\ Len(a) <= Len(b) - 1
    /\ Len(a) = Len(y)
    /\ Len(x1) + Len(b) + Len(a) + Len(y) <= 256

IirConfigNewAccepts(x1, b, a, y) ==
    /\ Len(x1) <= 255
    /\ Len(b) + Len(a) <= 255
    /\ Len(y) <= 255
    /\ 2 <= Len(b) /\ Len(b) <= 64
    /\ 1 <= Len(a) /\ Len(a) <= Len(b) - 1
    /\ Len(b) = Len(x1)
    /\ Len(a) = Len(y)
    /\ Len(x1) + Len(b) + Len(a) + Len(y) <= 256

Panicked(msg) ==
    /\ pc' = "panicked"
    /\ panic' = msg

IirConfig_new ==
    /\ pc = "reset" /\ func = "none" /\ ~newArgs.some
    /\ \E n1 \in IirX1Lens, nb \in IirBLens, na \in IirALens, ny \in IirYLens, r \in Gain :
        LET x1 == Slice(Seed.x1, n1)
            b == Slice(Seed.b, nb)
            a == Slice(Seed.a, na)
            y == Slice(Seed.y, ny)
        IN /\ newArgs' = Slices(x1, b, a, y, r)
           /\ IF IirConfigNewAccepts(x1, b, a, y)
              THEN /\ cfg' = Slices(x1, b, a, y, r)
                   /\ UNCHANGED <<pc, panic>>
              ELSE /\ Panicked("IirConfig::new")
                   /\ UNCHANGED cfg
    /\ UNCHANGED <<func, sl, bases, fmac, log, io, call, ret, nops, beyondFmac>>

\* -------------------------------------------------------------- init_buffers
\* The three base addresses; u8 addition overflows (a panic with overflow
\* checks, a wrap without) when the sum exceeds 255.
InitBuffersBases_NoA(x1, b, a) ==
    [x1 |-> 0,
     x2 |-> AsU8(Len(x1)),
     y |-> AsU8(AsU8(Len(x1)) + AsU8(Len(b))),
     overflow |-> AsU8(Len(x1)) + AsU8(Len(b)) > 255]

InitBuffersBases(x1, b, a) ==
    [x1 |-> 0,
     x2 |-> AsU8(Len(x1)),
     y |-> AsU8(AsU8(Len(x1)) + AsU8(Len(b) + Len(a))),
     overflow |-> AsU8(Len(x1)) + AsU8(Len(b) + Len(a)) > 255]

NoBases == [x1 |-> 0, x2 |-> 0, y |-> 0, overflow |-> FALSE]

\* Entry of init_buffers, after which write_x1 is called.
EnterInitBuffers(s, lg) ==
    \E overflow_checks \in BOOLEAN :
        LET bs == InitBuffersBases(s.x1, s.b, s.a)
        IN /\ log' = lg
           /\ fmac' = FmacReset
           /\ sl' = s
           /\ IF bs.overflow /\ overflow_checks
              THEN /\ Panicked("init_buffers: attempt to add with overflow")
                   /\ UNCHANGED bases
              ELSE /\ pc' = "write_x1"
                   /\ bases' = bs
                   /\ UNCHANGED panic

\* ------------------------------------------------------------- fir() / iir()
FirAccepts(x1, x2) == Len(x1) = Len(x2) /\ Len(x1) \in 2..127

\* fir(): enable and reset the clock domain, check the lengths, enter
\* init_buffers.
fir_begin ==
    /\ pc = "reset" /\ func = "none" /\ ~newArgs.some
    /\ \E n1 \in FirTapLens, n2 \in FirTapLens, ny \in FirYLens, r \in Gain :
        LET s == Slices(Slice(Seed.x1, n1), Slice(Seed.b, n2), <<>>, Slice(Seed.y, ny), r)
        IN /\ func' = "fir"
           /\ IF FirAccepts(s.x1, s.b)
              THEN EnterInitBuffers(s, <<RccEnable, RccReset>>)
              ELSE /\ Panicked("fir: length")
                   /\ log' = <<RccEnable, RccReset>>
                   /\ fmac' = FmacReset
                   /\ sl' = s
                   /\ UNCHANGED bases
    /\ UNCHANGED <<newArgs, cfg, io, call, ret, nops, beyondFmac>>

\* iir(): enable and reset the clock domain, enter init_buffers with the
\* slices of the configuration.
iir_begin ==
    /\ pc = "reset" /\ func = "none" /\ cfg.some
    /\ func' = "iir"
    /\ EnterInitBuffers(cfg, <<RccEnable, RccReset>>)
    /\ UNCHANGED <<newArgs, cfg, io, call, ret, nops, beyondFmac>>

\* ------------------------------------------------ write_x1 / write_x2 / write_y
X1BufCfg(x1, base_addr) == [base |-> base_addr, size |-> AsU8(Len(x1)), wm |-> 0]
X1LoadParam(x1) ==
    [p |-> AsU8(Len(x1)), q |-> 0, r |-> 0, func |-> LoadX1, start |-> 1]

X2BufCfg(b, a, base_addr) ==
    [base |-> base_addr, size |-> AsU8(Len(b) + Len(a)), wm |-> 0]
X2LoadParam_AsLoadY(b, a) ==
    [p |-> AsU8(Len(b)), q |-> AsU8(Len(a)), r |-> 0, func |-> LoadY, start |-> 1]
X2LoadParam_PIsTotal(b, a) ==
    [p |-> AsU8(Len(b) + Len(a)), q |-> AsU8(Len(a)), r |-> 0, func |-> LoadX2,
     start |-> 1]
X2LoadParam(b, a) ==
    [p |-> AsU8(Len(b)), q |-> AsU8(Len(a)), r |-> 0, func |-> LoadX2, start |-> 1]
\* The two loops of write_x2: all of b, then all of a.
X2Stream_AFirst(b, a) == Encode(a) \o Encode(b)
X2Stream(b, a) == Encode(b) \o Encode(a)

YBufCfg(y, base_addr) == [base |-> base_addr, size |-> AsU8(Len(y)), wm |-> 0]
YLoadParam(y) ==
    [p |-> AsU8(Len(y)), q |-> 0, r |-> 0, func |-> LoadY, start |-> 1]

\* The common shape of the three functions: the length assertions, the
\* assertion that START reads clear, the buffer configuration write, the load
\* command, one WDATA write per element, the assertion that START reads
\* clear again.
LoadRegion(lenOk, reg, cfgv, paramv, data, nextpc, msgLen, msgPre, msgPost) ==
    IF ~lenOk
    THEN /\ Panicked(msgLen)
         /\ UNCHANGED <<fmac, log>>
    ELSE IF fmac.param.start # 0
    THEN /\ Panicked(msgPre)
         /\ log' = Append(log, RParam(fmac.param))
         /\ UNCHANGED fmac
    ELSE LET f1 == [fmac EXCEPT ![reg] = cfgv]
             f2 == HwParamWrite(f1, paramv)
             f3 == HwStream(f2, data)
         IN /\ fmac' = f3
            /\ log' = log \o <<RParam(fmac.param), WBufCfg(reg, cfgv), WParam(paramv)>>
                          \o WdataWrites(data) \o <<RParam(f3.param)>>
            /\ IF f3.param.start # 0
               THEN Panicked(msgPost)
               ELSE pc' = nextpc /\ UNCHANGED panic

write_x1 ==
    /\ pc = "write_x1"
    /\ LoadRegion(Len(sl.x1) <= 255, "x1bufcfg", X1BufCfg(sl.x1, bases.x1),
                  X1LoadParam(sl.x1), Encode(sl.x1), "write_x2",
                  "write_x1: len", "write_x1: START set before load",
                  "write_x1: START set after load")
    /\ UNCHANGED <<func, newArgs, cfg, sl, bases, io, call, ret, nops, beyondFmac>>

write_x2 ==
    /\ pc = "write_x2"
    /\ LoadRegion(Len(sl.b) <= 255 /\ Len(sl.a) <= 255 /\ Len(sl.b) + Len(sl.a) <= 256,
                  "x2bufcfg", X2BufCfg(sl.b, sl.a, bases.x2),
                  X2LoadParam(sl.b, sl.a), X2Stream(sl.b, sl.a), "write_y",
                  "write_x2: len", "write_x2: START set before load",
                  "write_x2: START set after load")
    /\ UNCHANGED <<func, newArgs, cfg, sl, bases, io, call, ret, nops, beyondFmac>>

write_y ==
    /\ pc = "write_y"
    /\ LoadRegion(Len(sl.y) <= 255, "ybufcfg", YBufCfg(sl.y, bases.y),
                  YLoadParam(sl.y), Encode(sl.y), "finish",
                  "write_y: len", "write_y: START set before load",
                  "write_y: START set after load")
    /\ UNCHANGED <<func, newArgs, cfg, sl, bases, io, call, ret, nops, beyondFmac>>

\* ------------------------------------------------ arming the filter function
FirParam(x1, r) ==
    [p |-> AsU8(Len(x1)), q |-> 0, r |-> r, func |-> FuncFir, start |-> 1]

IirParam_Swapped(b, a, r) ==
    [p |-> AsU8(Len(a)), q |-> AsU8(Len(b)), r |-> r, func |-> FuncIir, start |-> 1]

IirParam(b, a, r) ==
    [p |-> AsU8(Len(b)), q |-> AsU8(Len(a)), r |-> r, func |-> FuncIir, start |-> 1]

\* The last PARAM write of fir() / iir(); the handle is returned.
Arm(paramv) ==
    /\ fmac' = HwParamWrite(fmac, paramv)
    /\ log' = Append(log, WParam(paramv))
    /\ pc' = "running"

fir_finish ==
    /\ pc = "finish" /\ func = "fir"
    /\ Arm(FirParam(sl.x1, sl.r))
    /\ UNCHANGED <<func, newArgs, cfg, sl, bases, panic, io, call, ret, nops, beyondFmac>>

iir_finish ==
    /\ pc = "finish" /\ func = "iir"
    /\ Arm(IirParam(sl.b, sl.a, sl.r))
    /\ UNCHANGED <<func, newArgs, cfg, sl, bases, panic, io, call, ret, nops, beyondFmac>>

\* ------------------------------------------------------------- runtime I/O
\* Samples handed to write(), as I1F15 bit patterns (i16).
Samples == {-32768, -1, 12345}
\* Values the hardware presents in RDATA.
RdataValues == {40000, 7}

RetNone == [kind |-> "None", v |-> 0]
RetSome(v) == [kind |-> "Some", v |-> v]
RetOk == [kind |-> "Ok", v |-> 0]
RetErrX1Full == [kind |-> "Err(X1Full)", v |-> 0]

Read_WhenEmpty(f) ==
    [f |-> f, io |-> <<RSr(f), RRdata(f.rdata)>>, ret |-> RetSome(FromBitsI16(f.rdata))]

\* fn read(fmac) -> Option<I1F15>
Read(f) ==
    IF f.yempty
    THEN [f |-> f, io |-> <<RSr(f)>>, ret |-> RetNone]
    ELSE [f |-> f, io |-> <<RSr(f), RRdata(f.rdata)>>,
          ret |-> RetSome(FromBitsI16(f.rdata))]

Write_Drops(f, value) ==
    IF f.x1full
    THEN [f |-> f, io |-> <<RSr(f)>>, ret |-> RetOk]
    ELSE [f |-> HwWdataWrite(f, value), io |-> <<RSr(f), WWdata(value)>>,
          ret |-> RetOk]

Write_Restarts(f, value) ==
    IF f.x1full
    THEN [f |-> f, io |-> <<RSr(f)>>, ret |-> RetErrX1Full]
    ELSE [f |-> HwWdataWrite(HwParamWrite(f, [f.param EXCEPT !.q = 0]), value),
          io |-> <<RSr(f), WParam([f.param EXCEPT !.q = 0]), WWdata(value)>>,
          ret |-> RetOk]

Write_WhenFull(f, value) ==
    [f |-> HwWdataWrite(f, value), io |-> <<RSr(f), WWdata(value)>>,
     ret |-> IF f.x1full THEN RetErrX1Full ELSE RetOk]

\* fn write(fmac, value: u16) -> Result<(), FmacError>
Write(f, value) ==
    IF f.x1full
    THEN [f |-> f, io |-> <<RSr(f)>>, ret |-> RetErrX1Full]
    ELSE [f |-> HwWdataWrite(f, value), io |-> <<RSr(f), WWdata(value)>>,
          ret |-> RetOk]

Returned(name, arg, res) ==
    /\ call' = [op |-> name, arg |-> arg]
    /\ fmac' = res.f
    /\ io' = res.io
    /\ ret' = res.ret
    /\ nops' = nops + 1

\* Fir::read / Iir::read
read ==
    /\ pc = "running" /\ nops < MaxOps
    /\ Returned("read", 0, Read(fmac))
    /\ UNCHANGED <<pc, func, newArgs, cfg, sl, bases, log, panic, beyondFmac>>

\* Fir::write / Iir::write
write ==
    /\ pc = "running" /\ nops < MaxOps
    /\ \E value \in Samples : Returned("write", value, Write(fmac, ToBitsU16(value)))
    /\ UNCHANGED <<pc, func, newArgs, cfg, sl, bases, log, panic, beyondFmac>>

\* The hardware changes the status flags and the output value between calls.
HwStatus ==
    /\ pc = "running"
    /\ \E full \in BOOLEAN, empty \in BOOLEAN, d \in RdataValues :
        /\ fmac' = [fmac EXCEPT !.x1full = full, !.yempty = empty, !.rdata = d]
        /\ fmac' # fmac
    /\ UNCHANGED <<pc, func, newArgs, cfg, sl, bases, log, panic, io, call, ret, nops, beyondFmac>>

\* ------------------------------------------- the hardware while a filter runs
\* What stands behind X1FULL and YEMPTY once fir()/iir() has armed the filter.
\* X1 is a circular buffer of x1_buf_size samples of which the filter needs P
\* for one output; Y receives the outputs until they are read from RDATA.
\*   pre   1 when the hardware computes an output from the preloaded X1
\*         window alone, 0 when every output needs a sample written at run
\*         time (the data sheet is not part of the repository: both kinds of
\*         hardware are explored)
\*   nin   samples accepted from WDATA since the filter was armed
\*   nout  outputs computed
\*   nrd   outputs taken from RDATA
\*   lost  WDATA writes made while X1 had no room
NoHw == [pre |-> 0, nin |-> 0, nout |-> 0, nrd |-> 0, lost |-> 0]
HwKinds == {0, 1}
\* Windows of X1 that have not been turned into an output yet.
Pending(h) == h.pre + h.nin - h.nout
\* Outputs in Y that have not been read yet.
Unread(h) == h.nout - h.nrd
\* Samples X1 can take beyond the window that is being worked on.
X1Room(f) == f.x1bufcfg.size - f.param.p + 1
YRoom(f) == f.ybufcfg.size
\* The value of the j-th output (the filter arithmetic itself is not modelled).
OutputValue(j) == IF j % 2 = 1 THEN 40000 ELSE 7

\* The status flags and RDATA as the occupancy determines them.
Refresh(f, h) ==
    [f EXCEPT !.x1full = Pending(h) >= X1Room(f),
              !.yempty = Unread(h) = 0,
              !.rdata = IF Unread(h) > 0 THEN OutputValue(h.nrd + 1) ELSE f.rdata]

\* One register access as the buffers see it.
HwAccess(h, f, e) ==
    IF e.reg = "WDATA" /\ e.op = "w"
    THEN IF Pending(h) < X1Room(f)
         THEN [h EXCEPT !.nin = @ + 1]
         ELSE [h EXCEPT !.lost = @ + 1]
    ELSE IF e.reg = "RDATA" /\ e.op = "r" /\ Unread(h) > 0
    THEN [h EXCEPT !.nrd = @ + 1]
    ELSE h

\* The accesses of one call of read or write (at most two).
HwReact(h, f, s) ==
    IF Len(s) = 0 THEN h
    ELSE IF Len(s) = 1 THEN HwAccess(h, f, s[1])
    ELSE HwAccess(HwAccess(h, f, s[1]), f, s[2])

\* The filter turns one pending window into one output when Y has room.
HwCompute ==
    /\ pc = "running"
    /\ Pending(hw) >= 1
    /\ Unread(hw) < YRoom(fmac)
    /\ hw' = [hw EXCEPT !.nout = @ + 1]
    /\ fmac' = Refresh(fmac, hw')
    /\ UNCHANGED <<pc, func, newArgs, cfg, sl, bases, log, panic, io, call, ret, nops, task, beyondIo>>

\* The register values fir()/iir() leaves behind: the three loads of
\* init_buffers followed by the write of PARAM that starts the filter.
ArmedFmac(kind, s) ==
    LET bs == InitBuffersBases(s.x1, s.b, s.a)
        f1 == HwStream(HwParamWrite([FmacReset EXCEPT !.x1bufcfg = X1BufCfg(s.x1, bs.x1)],
                                    X1LoadParam(s.x1)),
                       Encode(s.x1))
        f2 == HwStream(HwParamWrite([f1 EXCEPT !.x2bufcfg = X2BufCfg(s.b, s.a, bs.x2)],
                                    X2LoadParam(s.b, s.a)),
                       X2Stream(s.b, s.a))
        f3 == HwStream(HwParamWrite([f2 EXCEPT !.ybufcfg = YBufCfg(s.y, bs.y)],
                                    YLoadParam(s.y)),
                       Encode(s.y))
    IN HwParamWrite(f3, IF kind = "fir" THEN FirParam(s.x1, s.r)
                                        ELSE IirParam(s.b, s.a, s.r))

\* --------------------------------------------- runtime calls on a live filter
\* Failed polls of one blocking loop that the trace io keeps; the loop itself
\* is not bounded, later failed polls repeat the last one recorded.
MaxSpins == 2

\* No blocking call in progress; todo lists the loops a blocking call still
\* has to get through, spins counts the failed polls of the current loop.
Idle == [todo |-> <<>>, spins |-> 0]
Busy == task.todo # <<>>
RetPending == [kind |-> "pending", v |-> 0]
RetUnit == [kind |-> "()", v |-> 0]
RetValue(v) == [kind |-> "value", v |-> v]

\* A call of read or write completes in one step; the buffers see its
\* accesses and the flags follow.
Completed(name, arg, res) ==
    LET h == HwReact(hw, fmac, res.io)
    IN /\ call' = [op |-> name, arg |-> arg]
       /\ hw' = h
       /\ fmac' = Refresh(res.f, h)
       /\ io' = res.io
       /\ ret' = res.ret
       /\ nops' = nops + 1

\* Fir::read / Iir::read on a filter whose buffers are modelled.
Handle_read ==
    /\ pc = "running" /\ ~Busy /\ nops < MaxOps
    /\ Completed("read", 0, Read(fmac))
    /\ UNCHANGED <<pc, func, newArgs, cfg, sl, bases, log, panic, task, beyondIo>>

\* Fir::write / Iir::write on a filter whose buffers are modelled.
WriteCall(limit) ==
    /\ pc = "running" /\ ~Busy /\ nops < limit
    /\ \E value \in Samples : Completed("write", value, Write(fmac, ToBitsU16(value)))
    /\ UNCHANGED <<pc, func, newArgs, cfg, sl, bases, log, panic, task, beyondIo>>

Handle_write == WriteCall(MaxOps)

\* Entry of a blocking call: nothing is accessed before the first poll.
Enter(name, arg, todo) ==
    /\ pc = "running" /\ ~Busy /\ nops < MaxOps
    /\ call' = [op |-> name, arg |-> arg]
    /\ task' = [todo |-> todo, spins |-> 0]
    /\ io' = <<>>
    /\ ret' = RetPending
    /\ UNCHANGED <<pc, func, newArgs, cfg, sl, bases, fmac, log, panic, nops, hw, beyondIo>>

\* Fir::read_blocking / Iir::read_blocking
read_blocking == Enter("read_blocking", 0, <<"read">>)

\* Fir::write_blocking / Iir::write_blocking
write_blocking == \E value \in Samples : Enter("write_blocking", value, <<"write">>)

ComputeSteps_ReadFirst == <<"read", "write">>

\* The body of compute_blocking: self.write_blocking(value); self.read_blocking()
ComputeSteps == <<"write", "read">>

\* Fir::compute_blocking / Iir::compute_blocking
compute_blocking == \E value \in Samples : Enter("compute_blocking", value, ComputeSteps)

\* One turn of a blocking loop: res is what read/write did and returned, done
\* tells whether the loop returns, value what it returns then.
Poll(res, done, value) ==
    LET h == HwReact(hw, fmac, res.io)
        rest == Tail(task.todo)
    IN /\ hw' = h
       /\ fmac' = Refresh(res.f, h)
       /\ IF done
          THEN /\ io' = io \o res.io
               /\ task' = [todo |-> rest, spins |-> 0]
               /\ ret' = IF rest # <<>> THEN ret
                         ELSE IF value.kind = "()" /\ ret.kind = "value" THEN ret
                         ELSE value
               /\ nops' = IF rest = <<>> THEN nops + 1 ELSE nops
          ELSE /\ io' = IF task.spins < MaxSpins THEN io \o res.io ELSE io
               /\ task' = [task EXCEPT !.spins = IF @ < MaxSpins THEN @ + 1 ELSE @]
               /\ UNCHANGED <<ret, nops>>
       /\ UNCHANGED <<pc, func, newArgs, cfg, sl, bases, log, panic, call, beyondIo>>

poll_write_NoRetry ==
    /\ pc = "running" /\ Busy /\ Head(task.todo) = "write"
    /\ LET res == Write(fmac, ToBitsU16(call.arg))
       IN Poll(res, TRUE, RetUnit)

\* loop { if let Ok(()) = write(fmac, value) { return; } } of write_blocking,
\* value being `value.to_bits() as u16`
poll_write ==
    /\ pc = "running" /\ Busy /\ Head(task.todo) = "write"
    /\ LET res == Write(fmac, ToBitsU16(call.arg))
       IN Poll(res, res.ret = RetOk, RetUnit)

poll_read_GivesUp ==
    /\ pc = "running" /\ Busy /\ Head(task.todo) = "read"
    /\ LET res == Read(fmac)
       IN Poll(res, TRUE, RetValue(res.ret.v))

\* loop { if let Some(x) = read(fmac) { return x; } } of read_blocking
poll_read ==
    /\ pc = "running" /\ Busy /\ Head(task.todo) = "read"
    /\ LET res == Read(fmac)
       IN Poll(res, res.ret.kind = "Some", RetValue(res.ret.v))

\* Handles the runtime specifications start from: what fir() and iir() return
\* for these arguments.
FirHandle(n, ny, r) ==
    [func |-> "fir",
     sl |-> Slices(Slice(Seed.x1, n), Slice(Seed.b, n), <<>>, Slice(Seed.y, ny), r)]
IirHandle(nb, na, r) ==
    [func |-> "iir",
     sl |-> Slices(Slice(Seed.x1, nb), Slice(Seed.b, nb), Slice(Seed.a, na),
                   Slice(Seed.y, na), r)]
Accepted(h) ==
    IF h.func = "fir"
    THEN FirAccepts(h.sl.x1, h.sl.b) /\ Len(h.sl.y) <= 255
    ELSE IirConfigNewAccepts(h.sl.x1, h.sl.b, h.sl.a, h.sl.y)
IoHandles ==
    {h \in {FirHandle(2, 0, 0), FirHandle(2, 1, 0), FirHandle(127, 255, 1),
            IirHandle(2, 1, 0), IirHandle(64, 63, 7)} : Accepted(h)}

\* The state in which fir()/iir() returns the handle.
IoInit ==
    \E h \in IoHandles, pre \in HwKinds :
        /\ pc = "running"
        /\ func = h.func
        /\ newArgs = IF h.func = "iir" THEN h.sl ELSE NoSlices
        /\ cfg = IF h.func = "iir" THEN h.sl ELSE NoSlices
        /\ sl = h.sl
        /\ bases = InitBuffersBases(h.sl.x1, h.sl.b, h.sl.a)
        /\ hw = [NoHw EXCEPT !.pre = pre]
        /\ fmac = Refresh(ArmedFmac(h.func, h.sl), hw)
        /\ log = <<>>
        /\ panic = ""
        /\ io = <<>>
        /\ call = [op |-> "none", arg |-> 0]
        /\ ret = [kind |-> "none", v |-> 0]
        /\ nops = 0
        /\ task = Idle

(***************************************************************************)
(* Part 2: the observation lock, src/src/observable.rs.                    *)
(* Rust's ownership is modelled by where each value is: a peripheral value *)
(* is with the caller (exclusively owned) or inside an Observed, a token   *)
(* is with the caller, with another driver, or has been given to release.  *)
(* Observed<P, N> and ObservationToken<P> carry the peripheral's type P    *)
(* and nothing of the value it had.                                        *)
(***************************************************************************)
\* Observed values created in one run.
MaxObserve == 2
\* The largest observer count N tried.
MaxTokens == 2

\* Peripheral values: two values of one kind of peripheral.
Instances == {"pa", "pb"}
\* The configurations of a peripheral; the HAL keeps the configuration in the
\* type (a pin in analog mode and the same pin as an output are values of
\* different types), and changing it consumes the value.
Modes == {"analog", "output"}
\* The type P of a peripheral value: its kind, the same for all values here,
\* and its configuration.
TypeOf(i) == mode[i]

Exclusive(i) == owner[i] = 0
Wrappers == 1..Len(obs)
\* The tokens of the w-th observe call that exist (release has not consumed
\* them): with the caller or moved into another driver.
Outstanding(w) == tokens[w].caller + tokens[w].user

RECURSIVE SumTo(_, _)
SumTo(g, k) == IF k = 0 THEN 0 ELSE g[k] + SumTo(g, k - 1)

ObsInit ==
    /\ owner = [i \in Instances |-> 0]
    /\ mode = [i \in Instances |-> "analog"]
    /\ obs = <<>>
    /\ tokens = <<>>

NewTokens_OneMore(n) == [caller |-> n + 1, user |-> 0, returned |-> 0]

\* core::array::from_fn(|_| ObservationToken { _p: PhantomData }): N tokens
\* of type ObservationToken<Self>, all handed to the caller.  The tokens of
\* one observe call are counted by where they are; the program's tokens carry
\* nothing that tells them apart.
NewTokens(n) == [caller |-> n, user |-> 0, returned |-> 0]

\* Observable::observe::<N>(self): Observed { peripheral: self } and the tokens
Observe(i, n) ==
    /\ Exclusive(i)
    /\ Len(obs) < MaxObserve
    /\ obs' = Append(obs, [alive |-> TRUE, n |-> n, ty |-> TypeOf(i), inner |-> i,
                           origin |-> i])
    /\ owner' = [owner EXCEPT ![i] = Len(obs) + 1]
    /\ tokens' = Append(tokens, NewTokens(n))
    /\ UNCHANGED <<mode, beyondObs>>

observe == \E i \in Instances, n \in 0..MaxTokens : Observe(i, n)

\* What the signature of release asks of its argument: an array of
\* OBSERVER_COUNT values of type ObservationToken<P>, moved in by the caller.
\* g[v] is the number of tokens taken from those of the v-th observe call.
ReleaseAccepts(w, g) ==
    /\ \A v \in Wrappers : g[v] <= tokens[v].caller
    /\ \A v \in Wrappers : g[v] > 0 => obs[v].ty = obs[w].ty
    /\ SumTo(g, Len(obs)) = obs[w].n

\* Observed::release(self, _data) -> P: the tokens are consumed and
\* self.peripheral is returned.
release ==
    \E w \in Wrappers, g \in [Wrappers -> 0..MaxTokens] :
        /\ obs[w].alive
        /\ ReleaseAccepts(w, g)
        /\ obs' = [obs EXCEPT ![w].alive = FALSE]
        /\ owner' = [owner EXCEPT ![obs[w].inner] = 0]
        /\ tokens' = [v \in Wrappers |->
                        [tokens[v] EXCEPT !.caller = @ - g[v], !.returned = @ + g[v]]]
        /\ UNCHANGED <<mode, beyondObs>>

\* A token is moved into another driver (comp1.comparator(pa1_token, ..)).
hand_off ==
    \E v \in Wrappers :
        /\ tokens[v].caller > 0
        /\ tokens' = [tokens EXCEPT ![v].caller = @ - 1, ![v].user = @ + 1]
        /\ UNCHANGED <<owner, mode, obs, beyondObs>>

\* The other driver gives the token back to the caller.
hand_back ==
    \E v \in Wrappers :
        /\ tokens[v].user > 0
        /\ tokens' = [tokens EXCEPT ![v].user = @ - 1, ![v].caller = @ + 1]
        /\ UNCHANGED <<owner, mode, obs, beyondObs>>

\* A shared view &P of the peripheral inside an Observed: the peripheral is
\* used, no value moves and no configuration changes.
SharedView ==
    \E w \in Wrappers :
        /\ obs[w].alive
        /\ UNCHANGED <<owner, mode, obs, tokens, beyondObs>>

SwapAllowed_AnyType(w, j) == Exclusive(j)

\* What core::mem::swap(&mut P, &mut P) asks for: a second value of the same
\* type P that the caller owns.
SwapAllowed(w, j) == Exclusive(j) /\ TypeOf(j) = obs[w].ty

\* An exclusive view &mut P: the peripheral is used in place, or exchanged
\* for another value of type P (core::mem::swap / replace), which moves the
\* observed value out to the caller.
ExclusiveView ==
    \E w \in Wrappers :
        /\ obs[w].alive
        /\ \/ UNCHANGED <<owner, obs>>
           \/ \E j \in Instances :
                /\ SwapAllowed(w, j)
                /\ owner' = [owner EXCEPT ![obs[w].inner] = 0, ![j] = w]
                /\ obs' = [obs EXCEPT ![w].inner = j]
        /\ UNCHANGED <<mode, tokens, beyondObs>>

\* impl AsRef<P> for Observed<P, N>
as_ref == SharedView
\* impl AsMut<P> for Observed<P, N>
as_mut == ExclusiveView
\* impl Deref for Observed<P, N>
deref == SharedView
\* impl DerefMut for Observed<P, N>
deref_mut == ExclusiveView

\* The peripheral's own mode change (into_analog(self) and the like): it
\* takes the value, so the caller must own it.
reconfigure ==
    \E i \in Instances, m \in Modes :
        /\ Exclusive(i)
        /\ m # mode[i]
        /\ mode' = [mode EXCEPT ![i] = m]
        /\ UNCHANGED <<owner, obs, tokens, beyondObs>>

ObsNext ==
    \/ observe
    \/ release
    \/ hand_off
    \/ hand_back
    \/ as_ref
    \/ as_mut
    \/ deref
    \/ deref_mut
    \/ reconfigure

(***************************************************************************)
(* Part 3: the sample conversions of the FMAC data registers, on every     *)
(* 16-bit pattern and every I1F15 value.                                   *)
(***************************************************************************)
Patterns == 0..(2^16 - 1)
\* I1F15 values as their to_bits(): the sample is bits / 2^15.
SampleBits == (-(2^15))..(2^15 - 1)

CodecOff == [from |-> "none", in |-> 0, mid |-> 0, out |-> 0, stage |-> "off"]
\* An RDATA pattern to decode, or a sample to write to WDATA.
CodecInit ==
    \/ \E u \in Patterns :
        codec = [from |-> "bits", in |-> u, mid |-> 0, out |-> 0, stage |-> "input"]
    \/ \E s \in SampleBits :
        codec = [from |-> "sample", in |-> s, mid |-> 0, out |-> 0, stage |-> "input"]

\* The value the next conversion is applied to.
Operand == IF codec.stage = "input" THEN codec.in ELSE codec.mid
\* The conversion's result is kept: first conversion, or the way back.
Converted(v) ==
    /\ IF codec.stage = "input"
       THEN codec' = [codec EXCEPT !.mid = v, !.stage = "converted"]
       ELSE codec' = [codec EXCEPT !.out = v, !.stage = "back"]
    /\ UNCHANGED beyondCodec

\* I1F15::from_bits(rdata as i16), as in read
decode ==
    /\ \/ codec.from = "bits" /\ codec.stage = "input"
       \/ codec.from = "sample" /\ codec.stage = "converted"
    /\ Converted(FromBitsI16(Operand))

\* value.to_bits() as u16, as in write and write_blocking
encode ==
    /\ \/ codec.from = "sample" /\ codec.stage = "input"
       \/ codec.from = "bits" /\ codec.stage = "converted"
    /\ Converted(ToBitsU16(Operand))

CodecNext ==
    \/ decode
    \/ encode

(***************************************************************************)
(* Part 4: the I2C driver, src/src/i2c.rs.                                 *)
(* i2c is the peripheral: the set of flags that read as set in ISR, the    *)
(* fields of CR2, the bytes the current NBYTES round still has to move     *)
(* and who holds the bus.  xfer is the driver call: its operations, the    *)
(* operation (k), chunk (i) and byte (j) it is at, and the trace io of its *)
(* control accesses.  The data accesses (RXDR reads, TXDR writes) of the   *)
(* operation are counted in moved; at is the buffer index of the last one  *)
(* and saw the ISR value of the poll that let it through.                  *)
(***************************************************************************)
\* `buffer.chunks(0xFF)`, `buffer.len() / 0xFF`
ChunkLen == 255
\* Operations in one transaction() call.
MaxI2cOps == 2

\* Buffer lengths tried: empty, one byte, exactly one chunk, one byte more;
\* a call of several operations is tried with the short ones.
I2cLens(m) == IF m = 1 THEN {0, 1, ChunkLen, ChunkLen + 1} ELSE {0, 1}
\* Operation lists of length m: Operation::Read(data) / Operation::Write(data)
I2cOps(m) == [1..m -> [dir : {"read", "write"}, len : I2cLens(m)]]

\* What a register access of the driver does to the peripheral.  A START
\* written while another master holds the bus stays pending; otherwise the
\* transfer begins, or goes on with the next NBYTES after a reload.  Writing
\* TXDR fills the transmit register, reading RXDR empties the receive
\* register, ICR clears the flags written as 1 and writing TXE in ISR
\* flushes the transmit register.
I2cHw(h, e) ==
    CASE e.reg = "CR2" ->
            IF e.val.start /\ h.role = "other"
            THEN [h EXCEPT !.cr2 = e.val]
            ELSE IF e.val.start
            THEN [h EXCEPT !.cr2 = [e.val EXCEPT !.start = FALSE],
                           !.role = "master",
                           !.left = e.val.nbytes,
                           !.isr = (@ \ {"TCR"}) \cup {"BUSY"}]
            ELSE [h EXCEPT !.cr2 = e.val,
                           !.left = e.val.nbytes,
                           !.isr = @ \ {"TCR"}]
      [] e.reg = "TXDR" -> [h EXCEPT !.isr = @ \ {"TXIS", "TXE"}]
      [] e.reg = "RXDR" -> [h EXCEPT !.isr = @ \ {"RXNE"}]
      [] e.reg = "ICR" -> [h EXCEPT !.isr = @ \ e.val]
      [] e.reg = "ISR" /\ e.op = "w" -> [h EXCEPT !.isr = @ \cup e.val]
      [] OTHER -> h

\* The bus: the transfer of this master moves on by one byte or event, a
\* fault strikes it, or another master takes or frees the bus.
I2cBus ==
    /\ \/ /\ i2c.role = "master"
          /\ LET wr == i2c.cr2.rd_wrn = "write"
             IN i2c' =
                  IF wr /\ i2c.left > 0 /\ "TXE" \notin i2c.isr
                  THEN [i2c EXCEPT !.isr = @ \cup {"TXE"}, !.left = @ - 1]
                  ELSE IF wr /\ i2c.left > 0
                  THEN [i2c EXCEPT !.isr = @ \cup {"TXIS"}]
                  ELSE IF i2c.left > 0 /\ "RXNE" \notin i2c.isr
                  THEN [i2c EXCEPT !.isr = @ \cup {"RXNE"}, !.left = @ - 1]
                  ELSE IF i2c.left > 0
                  THEN i2c
                  ELSE IF i2c.cr2.reload
                  THEN [i2c EXCEPT !.isr = @ \cup {"TCR"}]
                  ELSE IF i2c.cr2.autoend
                  THEN [i2c EXCEPT !.isr = (@ \cup {"STOPF"}) \ {"BUSY"},
                                   !.role = "free"]
                  ELSE [i2c EXCEPT !.isr = @ \cup {"TC"}]
       \/ /\ i2c.role = "master"
          /\ \E F \in (SUBSET {"BERR", "ARLO", "NACKF"}) \ {{}} :
                i2c' = [i2c EXCEPT
                          !.isr = (@ \cup F
                                     \cup (IF "NACKF" \in F THEN {"STOPF"} ELSE {}))
                                  \ (IF "ARLO" \in F THEN {} ELSE {"BUSY"}),
                          !.role = IF "ARLO" \in F THEN "other" ELSE "free",
                          !.left = 0]
       \/ /\ i2c.role = "free"
          /\ i2c' = [i2c EXCEPT !.role = "other", !.isr = @ \cup {"BUSY"}]
       \/ /\ i2c.role = "other"
          /\ LET freed == [i2c EXCEPT !.role = "free", !.isr = @ \ {"BUSY"}]
             IN i2c' = IF i2c.cr2.start
                       THEN I2cHw(freed, [reg |-> "CR2", val |-> i2c.cr2])
                       ELSE freed
    /\ UNCHANGED <<xfer, core, iwdg, eev>>

\* flush_txdr!: a dummy byte if TXIS is pending, then TXE written as 1 if TXE
\* reads as set.  The result is the peripheral and the accesses made.
flush_txdr(h, k) ==
    LET dummy == [k |-> k, op |-> "w", reg |-> "TXDR", val |-> 0]
        flush == [k |-> k, op |-> "w", reg |-> "ISR", val |-> {"TXE"}]
        h1 == IF "TXIS" \in h.isr THEN I2cHw(h, dummy) ELSE h
        io1 == IF "TXIS" \in h.isr THEN <<dummy>> ELSE <<>>
    IN IF "TXE" \in h1.isr
       THEN [h |-> I2cHw(h1, flush), io |-> Append(io1, flush)]
       ELSE [h |-> h1, io |-> io1]

\* Ok(()) of read_inner / write_inner: the call goes on with its next
\* operation (transaction polls BUSY first, write_read does not) or returns.
InnerOk(x) ==
    LET y == [x EXCEPT !.io = Append(@, [k |-> x.k, op |-> "ret", reg |-> "", val |-> "Ok"])]
    IN IF x.k < Len(x.ops)
       THEN [y EXCEPT !.k = @ + 1, !.i = 0, !.j = 0, !.moved = 0, !.at = -1,
                      !.pc = IF x.entry = "transaction" THEN "bus" ELSE "chunk"]
       ELSE [y EXCEPT !.pc = "returned", !.ret = "Ok"]

Raise_GoesOn(x, err) ==
    LET y == [x EXCEPT !.io = Append(@, [k |-> x.k, op |-> "ret", reg |-> "", val |-> err])]
    IN IF x.k < Len(x.ops)
       THEN [y EXCEPT !.k = @ + 1, !.i = 0, !.j = 0, !.moved = 0, !.at = -1,
                      !.pc = IF x.entry = "transaction" THEN "bus" ELSE "chunk"]
       ELSE [y EXCEPT !.pc = "returned", !.ret = err]

\* return Err(..) of busy_wait! and the `?` of the callers: the call returns
\* the error.
Raise(x, err) ==
    [x EXCEPT !.pc = "returned", !.ret = err,
              !.io = Append(@, [k |-> x.k, op |-> "ret", reg |-> "", val |-> err])]

\* Entry of a driver call with its operations.
I2cCall(entry, a10, ops) ==
    /\ xfer.pc = "idle"
    /\ xfer' = [entry |-> entry, a10 |-> a10, addr |-> IF a10 THEN 597 ELSE 85,
                ops |-> ops, k |-> 1, i |-> 0, j |-> 0, io |-> <<>>,
                moved |-> 0, at |-> -1, saw |-> {},
                pc |-> IF ops = <<>> THEN "returned"
                       ELSE IF entry = "transaction" THEN "bus" ELSE "chunk",
                ret |-> IF ops = <<>> THEN "Ok" ELSE "pending"]
    /\ UNCHANGED <<i2c, core, iwdg, eev>>

\* embedded_hal::i2c::I2c::transaction, with a SevenBitAddress or a
\* TenBitAddress
transaction ==
    \E a10 \in BOOLEAN, m \in 0..MaxI2cOps : \E ops \in I2cOps(m) :
        I2cCall("transaction", a10, ops)

\* embedded_hal_old::blocking::i2c: Write::write, Read::read and
\* WriteRead::write_read
blocking_i2c ==
    \/ \E l \in I2cLens(1) : I2cCall("write", FALSE, <<[dir |-> "write", len |-> l]>>)
    \/ \E l \in I2cLens(1) : I2cCall("read", FALSE, <<[dir |-> "read", len |-> l]>>)
    \/ \E l1 \in I2cLens(2), l2 \in I2cLens(2) :
        I2cCall("write_read", FALSE,
                <<[dir |-> "write", len |-> l1], [dir |-> "read", len |-> l2]>>)

\* while self.i2c.isr().read().busy().bit_is_set() {}
wait_bus ==
    /\ xfer.pc = "bus"
    /\ IF "BUSY" \in i2c.isr
       THEN UNCHANGED xfer
       ELSE xfer' = [xfer EXCEPT
                        !.pc = "chunk",
                        !.io = Append(@, [k |-> xfer.k, op |-> "r", reg |-> "ISR",
                                          val |-> i2c.isr])]
    /\ UNCHANGED <<i2c, core, iwdg, eev>>

\* chunk as it would be without the split into chunks of 0xFF bytes
chunk_Uncapped ==
    /\ xfer.pc = "chunk"
    /\ LET op == xfer.ops[xfer.k]
           end == op.len \div ChunkLen
           rest == op.len - ChunkLen * xfer.i
           n == rest
           addressed == [i2c.cr2 EXCEPT
                            !.add10 = xfer.a10,
                            !.sadd = IF xfer.a10 THEN xfer.addr
                                     ELSE (xfer.addr * 2) % 65536,
                            !.rd_wrn = op.dir,
                            !.start = TRUE]
           sized == [(IF xfer.i = 0 THEN addressed ELSE i2c.cr2) EXCEPT
                        !.nbytes = n % 256]
           cr2 == IF op.dir = "write" /\ op.len = 0
                  THEN [addressed EXCEPT !.nbytes = 0, !.reload = FALSE,
                                         !.autoend = TRUE]
                  ELSE IF xfer.i = end
                  THEN [sized EXCEPT !.reload = FALSE, !.autoend = TRUE]
                  ELSE [sized EXCEPT !.reload = TRUE]
           e == [k |-> xfer.k, op |-> "w", reg |-> "CR2", val |-> cr2]
       IN IF op.dir = "write" /\ op.len = 0
          THEN /\ i2c' = I2cHw(i2c, e)
               /\ xfer' = InnerOk([xfer EXCEPT !.io = Append(@, e)])
          ELSE IF rest <= 0
          THEN /\ xfer' = [xfer EXCEPT !.pc = "stopf"]
               /\ UNCHANGED i2c
          ELSE /\ i2c' = I2cHw(i2c, e)
               /\ xfer' = [xfer EXCEPT !.pc = "byte", !.j = 0, !.io = Append(@, e)]
    /\ UNCHANGED <<core, iwdg, eev>>

\* The head of `for (i, buffer) in buffer.chunks(0xFF).enumerate()` and the
\* cr2().modify that prepares chunk i, of read_inner and write_inner; the
\* 0 byte write of write_inner comes before the loop.
chunk ==
    /\ xfer.pc = "chunk"
    /\ LET op == xfer.ops[xfer.k]
           end == op.len \div ChunkLen
           rest == op.len - ChunkLen * xfer.i
           n == IF rest > ChunkLen THEN ChunkLen ELSE rest
           addressed == [i2c.cr2 EXCEPT
                            !.add10 = xfer.a10,
                            !.sadd = IF xfer.a10 THEN xfer.addr
                                     ELSE (xfer.addr * 2) % 65536,
                            !.rd_wrn = op.dir,
                            !.start = TRUE]
           sized == [(IF xfer.i = 0 THEN addressed ELSE i2c.cr2) EXCEPT
                        !.nbytes = n % 256]
           cr2 == IF op.dir = "write" /\ op.len = 0
                  THEN [addressed EXCEPT !.nbytes = 0, !.reload = FALSE,
                                         !.autoend = TRUE]
                  ELSE IF xfer.i = end
                  THEN [sized EXCEPT !.reload = FALSE, !.autoend = TRUE]
                  ELSE [sized EXCEPT !.reload = TRUE]
           e == [k |-> xfer.k, op |-> "w", reg |-> "CR2", val |-> cr2]
       IN IF op.dir = "write" /\ op.len = 0
          THEN /\ i2c' = I2cHw(i2c, e)
               /\ xfer' = InnerOk([xfer EXCEPT !.io = Append(@, e)])
          ELSE IF rest <= 0
          THEN /\ xfer' = [xfer EXCEPT !.pc = "stopf"]
               /\ UNCHANGED i2c
          ELSE /\ i2c' = I2cHw(i2c, e)
               /\ xfer' = [xfer EXCEPT !.pc = "byte", !.j = 0, !.io = Append(@, e)]
    /\ UNCHANGED <<core, iwdg, eev>>

\* busy_wait with the tests of BERR and ARLO exchanged
busy_wait_ArloFirst ==
    /\ xfer.pc \in {"byte", "tcr", "stopf"}
    /\ LET op == xfer.ops[xfer.k]
           end == op.len \div ChunkLen
           rest == op.len - ChunkLen * xfer.i
           n == IF rest > ChunkLen THEN ChunkLen ELSE rest
           flag == CASE xfer.pc = "byte" -> IF op.dir = "read" THEN "RXNE" ELSE "TXIS"
                     [] xfer.pc = "tcr" -> "TCR"
                     [] xfer.pc = "stopf" -> "STOPF"
           seen == [k |-> xfer.k, op |-> "r", reg |-> "ISR", val |-> i2c.isr]
           icr(F) == [k |-> xfer.k, op |-> "w", reg |-> "ICR", val |-> F]
           data == IF op.dir = "read"
                   THEN [k |-> xfer.k, op |-> "r", reg |-> "RXDR", val |-> 0]
                   ELSE [k |-> xfer.k, op |-> "w", reg |-> "TXDR", val |-> 0]
           fail(F, err) ==
               /\ i2c' = I2cHw(i2c, icr(F))
               /\ xfer' = Raise([xfer EXCEPT !.io = @ \o <<seen, icr(F)>>], err)
       IN IF flag \in i2c.isr
          THEN CASE xfer.pc = "byte" ->
                      /\ i2c' = I2cHw(i2c, data)
                      /\ xfer' = LET x == [xfer EXCEPT
                                                !.moved = @ + 1,
                                                !.at = ChunkLen * xfer.i + xfer.j,
                                                !.saw = i2c.isr]
                                 IN IF xfer.j + 1 < n
                                    THEN [x EXCEPT !.j = @ + 1]
                                    ELSE IF xfer.i # end
                                    THEN [x EXCEPT !.j = @ + 1, !.pc = "tcr"]
                                    ELSE [x EXCEPT !.j = 0, !.i = @ + 1, !.pc = "chunk"]
                 [] xfer.pc = "tcr" ->
                      /\ xfer' = [xfer EXCEPT !.j = 0, !.i = @ + 1, !.pc = "chunk",
                                              !.io = Append(@, seen)]
                      /\ UNCHANGED i2c
                 [] xfer.pc = "stopf" ->
                      /\ i2c' = I2cHw(i2c, icr({"STOPF"}))
                      /\ xfer' = InnerOk([xfer EXCEPT !.io = @ \o <<seen, icr({"STOPF"})>>])
          ELSE IF "ARLO" \in i2c.isr THEN fail({"ARLO"}, "ArbitrationLost")
          ELSE IF "BERR" \in i2c.isr THEN fail({"BERR"}, "BusError")
          ELSE IF "NACKF" \in i2c.isr
          THEN LET cleared == I2cHw(i2c, icr({"STOPF", "NACKF"}))
                   flushed == flush_txdr(cleared, xfer.k)
               IN /\ i2c' = flushed.h
                  /\ xfer' = Raise([xfer EXCEPT
                                      !.io = (@ \o <<seen, icr({"STOPF", "NACKF"})>>)
                                             \o flushed.io], "Nack")
          ELSE UNCHANGED <<i2c, xfer>>
    /\ UNCHANGED <<core, iwdg, eev>>

\* One turn of busy_wait!(flag) and what follows the flag: the data byte of
\* the `for byte in buffer` loop, the next chunk after TCR, the write of
\* STOPCF and Ok(()) after STOPF.
busy_wait ==
    /\ xfer.pc \in {"byte", "tcr", "stopf"}
    /\ LET op == xfer.ops[xfer.k]
           end == op.len \div ChunkLen
           rest == op.len - ChunkLen * xfer.i
           n == IF rest > ChunkLen THEN ChunkLen ELSE rest
           flag == CASE xfer.pc = "byte" -> IF op.dir = "read" THEN "RXNE" ELSE "TXIS"
                     [] xfer.pc = "tcr" -> "TCR"
                     [] xfer.pc = "stopf" -> "STOPF"
           seen == [k |-> xfer.k, op |-> "r", reg |-> "ISR", val |-> i2c.isr]
           icr(F) == [k |-> xfer.k, op |-> "w", reg |-> "ICR", val |-> F]
           data == IF op.dir = "read"
                   THEN [k |-> xfer.k, op |-> "r", reg |-> "RXDR", val |-> 0]
                   ELSE [k |-> xfer.k, op |-> "w", reg |-> "TXDR", val |-> 0]
           fail(F, err) ==
               /\ i2c' = I2cHw(i2c, icr(F))
               /\ xfer' = Raise([xfer EXCEPT !.io = @ \o <<seen, icr(F)>>], err)
       IN IF flag \in i2c.isr
          THEN CASE xfer.pc = "byte" ->
                      /\ i2c' = I2cHw(i2c, data)
                      /\ xfer' = LET x == [xfer EXCEPT
                                                !.moved = @ + 1,
                                                !.at = ChunkLen * xfer.i + xfer.j,
                                                !.saw = i2c.isr]
                                 IN IF xfer.j + 1 < n
                                    THEN [x EXCEPT !.j = @ + 1]
                                    ELSE IF xfer.i # end
                                    THEN [x EXCEPT !.j = @ + 1, !.pc = "tcr"]
                                    ELSE [x EXCEPT !.j = 0, !.i = @ + 1, !.pc = "chunk"]
                 [] xfer.pc = "tcr" ->
                      /\ xfer' = [xfer EXCEPT !.j = 0, !.i = @ + 1, !.pc = "chunk",
                                              !.io = Append(@, seen)]
                      /\ UNCHANGED i2c
                 [] xfer.pc = "stopf" ->
                      /\ i2c' = I2cHw(i2c, icr({"STOPF"}))
                      /\ xfer' = InnerOk([xfer EXCEPT !.io = @ \o <<seen, icr({"STOPF"})>>])
          ELSE IF "BERR" \in i2c.isr THEN fail({"BERR"}, "BusError")
          ELSE IF "ARLO" \in i2c.isr THEN fail({"ARLO"}, "ArbitrationLost")
          ELSE IF "NACKF" \in i2c.isr
          THEN LET cleared == I2cHw(i2c, icr({"STOPF", "NACKF"}))
                   flushed == flush_txdr(cleared, xfer.k)
               IN /\ i2c' = flushed.h
                  /\ xfer' = Raise([xfer EXCEPT
                                      !.io = (@ \o <<seen, icr({"STOPF", "NACKF"})>>)
                                             \o flushed.io], "Nack")
          ELSE UNCHANGED <<i2c, xfer>>
    /\ UNCHANGED <<core, iwdg, eev>>

(***************************************************************************)
(* Part 5: the independent watchdog, src/src/independent_watchdog.rs.      *)
(* iwdg holds the registers PR, RLR, WINR, the update flags of SR, whether *)
(* the start key was written, and the call in progress with the trace io   *)
(* of its register accesses.                                               *)
(***************************************************************************)
CLOCK_SPEED == 32000
MAX_COUNTER_VALUE == 4095

\* The table with every maximum one millisecond too large
MAX_MILLIS_FOR_PRESCALER_Plus1 ==
    [n \in 1..8 |->
        LET d == IF n = 8 THEN 256 ELSE 2^(n + 1)
        IN [div |-> d, max |-> (MAX_COUNTER_VALUE * 1000) \div (CLOCK_SPEED \div d) + 1]]

\* (divider of the PR_A variant, maximum timeout in ms), in table order;
\* the last entry is DivideBy256bis.
MAX_MILLIS_FOR_PRESCALER ==
    [n \in 1..8 |->
        LET d == IF n = 8 THEN 256 ELSE 2^(n + 1)
        IN [div |-> d, max |-> (MAX_COUNTER_VALUE * 1000) \div (CLOCK_SPEED \div d)]]

\* Maximum window times tried (ms): around the maxima of the table.
MaxTimes ==
    {0, 1, 511, 512, 1023, 1024, 2047, 2048, 4095, 4096,
     8190, 8191, 16380, 16381, 32760, 32761}

\* An update of PR, RLR or WINR completes: the hardware clears its flag.
IwdgHw ==
    /\ \E f \in iwdg.sr : iwdg' = [iwdg EXCEPT !.sr = @ \ {f}]
    /\ UNCHANGED <<core, i2c, xfer, eev>>

\* start_windowed without the two key writes ahead of the prescaler
StartWindowed_KeysLate(min, max, checks) ==
    /\ iwdg.pc \in {"idle", "done"}
    /\ LET fit == {n \in 1..8 : MAX_MILLIS_FOR_PRESCALER[n].max >= max}
           keys == <<>>
       IN iwdg' = [iwdg EXCEPT
                     !.min = min, !.max = max, !.checks = checks,
                     !.started = TRUE,
                     !.io = keys,
                     !.reload = 0, !.window = 0,
                     !.div = IF fit = {} THEN 0
                             ELSE MAX_MILLIS_FOR_PRESCALER[
                                    CHOOSE n \in fit : \A m \in fit : n <= m].div,
                     !.pc = IF fit = {} THEN "panicked" ELSE "pvu",
                     !.panic = IF fit = {}
                               THEN "IWDG max time is greater than is possible"
                               ELSE ""]
    /\ UNCHANGED <<core, i2c, xfer, eev>>

\* start_windowed up to the choice of the prescaler: the start and enable
\* keys, then find(..).expect(..) over the table.  checks tells whether the
\* build panics on arithmetic overflow (debug) or wraps (release).
StartWindowed(min, max, checks) ==
    /\ iwdg.pc \in {"idle", "done"}
    /\ LET fit == {n \in 1..8 : MAX_MILLIS_FOR_PRESCALER[n].max >= max}
           keys == <<[op |-> "w", reg |-> "KR", val |-> "start"],
                     [op |-> "w", reg |-> "KR", val |-> "enable"]>>
       IN iwdg' = [iwdg EXCEPT
                     !.min = min, !.max = max, !.checks = checks,
                     !.started = TRUE,
                     !.io = keys,
                     !.reload = 0, !.window = 0,
                     !.div = IF fit = {} THEN 0
                             ELSE MAX_MILLIS_FOR_PRESCALER[
                                    CHOOSE n \in fit : \A m \in fit : n <= m].div,
                     !.pc = IF fit = {} THEN "panicked" ELSE "pvu",
                     !.panic = IF fit = {}
                               THEN "IWDG max time is greater than is possible"
                               ELSE ""]
    /\ UNCHANGED <<core, i2c, xfer, eev>>

\* IndependentWatchdog::start_windowed(min_window_time, max_window_time); the
\* tick count of the largest minimum tried does not fit in a u32.
start_windowed ==
    \E min \in {0, 1, 511, 32760, 2^27}, max \in MaxTimes, checks \in BOOLEAN :
        StartWindowed(min, max, checks)

\* IndependentWatchdog::start(max_time): start_windowed(0.millis(), max_time)
start ==
    \E max \in MaxTimes, checks \in BOOLEAN : StartWindowed(0, max, checks)

\* IndependentWatchdog::feed
feed ==
    /\ iwdg.pc \in {"idle", "done"}
    /\ iwdg' = [iwdg EXCEPT !.io = <<[op |-> "w", reg |-> "KR", val |-> "reset"]>>]
    /\ UNCHANGED <<core, i2c, xfer, eev>>

\* The rest of start_windowed, one wait loop and what follows it per step:
\* a turn of a loop that finds its flag set changes nothing.
start_windowed_step ==
    /\ iwdg.pc \in {"pvu", "wvu", "rvu", "wvu2", "sr"}
    /\ LET sr == [op |-> "r", reg |-> "SR", val |-> iwdg.sr]
           w(reg, v) == [op |-> "w", reg |-> reg, val |-> v]
           \* `ms * (CLOCK_SPEED / 1000)` in u32: 32 ticks per ms, so the
           \* product passes 2^32 from 2^27 ms on and wraps to (ms mod 2^27) * 32
           ticks(ms) == (ms % (2^27)) * (CLOCK_SPEED \div 1000)
           reload == ticks(iwdg.max) \div iwdg.div
           window == ticks(iwdg.min) \div iwdg.div
           overflow == iwdg.max >= 2^27 \/ iwdg.min >= 2^27
       IN CASE iwdg.pc = "pvu" ->
                 IF "PVU" \in iwdg.sr THEN UNCHANGED iwdg
                 ELSE iwdg' = [iwdg EXCEPT !.pc = "wvu", !.pr = iwdg.div,
                                           !.sr = @ \cup {"PVU"},
                                           !.io = @ \o <<sr, w("PR", iwdg.div)>>]
            [] iwdg.pc = "wvu" ->
                 IF "WVU" \in iwdg.sr THEN UNCHANGED iwdg
                 ELSE IF overflow /\ iwdg.checks
                 THEN iwdg' = [iwdg EXCEPT
                                 !.pc = "panicked",
                                 !.panic = "attempt to multiply with overflow",
                                 !.winr = MAX_COUNTER_VALUE,
                                 !.sr = @ \cup {"WVU"},
                                 !.io = @ \o <<sr, w("WINR", MAX_COUNTER_VALUE)>>]
                 ELSE iwdg' = [iwdg EXCEPT
                                 !.pc = "rvu", !.winr = MAX_COUNTER_VALUE,
                                 !.reload = reload, !.window = window,
                                 !.sr = @ \cup {"WVU"},
                                 !.io = @ \o <<sr, w("WINR", MAX_COUNTER_VALUE)>>]
            [] iwdg.pc = "rvu" ->
                 IF "RVU" \in iwdg.sr THEN UNCHANGED iwdg
                 ELSE iwdg' = [iwdg EXCEPT
                                 !.pc = "wvu2", !.rlr = iwdg.reload % 65536,
                                 !.sr = @ \cup {"RVU"},
                                 !.io = @ \o <<sr, w("RLR", iwdg.reload % 65536),
                                               w("KR", "reset"), w("KR", "enable")>>]
            [] iwdg.pc = "wvu2" ->
                 IF "WVU" \in iwdg.sr THEN UNCHANGED iwdg
                 ELSE IF iwdg.reload < iwdg.window /\ iwdg.checks
                 THEN iwdg' = [iwdg EXCEPT
                                 !.pc = "panicked",
                                 !.panic = "attempt to subtract with overflow",
                                 !.io = Append(@, sr)]
                 ELSE LET win == (iwdg.reload - iwdg.window) % 65536
                      IN iwdg' = [iwdg EXCEPT
                                    !.pc = "sr", !.winr = win,
                                    !.sr = @ \cup {"WVU"},
                                    !.io = @ \o <<sr, w("WINR", win)>>]
            [] iwdg.pc = "sr" ->
                 IF iwdg.sr # {} THEN UNCHANGED iwdg
                 ELSE iwdg' = [iwdg EXCEPT
                                 !.pc = "done",
                                 !.io = @ \o <<sr, w("KR", "reset")>>]
    /\ UNCHANGED <<core, i2c, xfer, eev>>

(***************************************************************************)
(* Part 6: the HRTIM external events, src/src/hrtim/external_event.rs.     *)
(* eev.regs[n] are the fields of external event n in EECR1 (events 1..5:   *)
(* src, pol, sns, fast), EECR2 (events 6..10: src, pol, sns) and EECR3     *)
(* (events 6..10: f); eev.b is the SourceBuilder in the caller's hands     *)
(* (n = 0: none) and eev.taken the EevInput values already consumed.       *)
(***************************************************************************)
\* Builders made in one run.
MaxBuilders == 2

\* EevInput::<N>::bind::<IS_FAST, SRC>(src): SourceBuilder::new(SRC::SRC_BITS);
\* SRC_BITS is 0b00 for a pin and 0b01 for the first comparator of the event.
bind ==
    /\ eev.b.n = 0
    /\ Cardinality(eev.taken) < MaxBuilders
    /\ \E n \in (1..10) \ eev.taken, is_fast \in BOOLEAN, src_bits \in {0, 1} :
        eev' = [eev EXCEPT
                  !.taken = @ \cup {n},
                  !.b = [n |-> n, fast |-> is_fast, src |-> src_bits,
                         sns |-> 0, pol |-> FALSE, f |-> 0]]
    /\ UNCHANGED <<core, i2c, xfer, iwdg>>

\* SourceBuilder<N, false>::edge_or_polarity: Polarity(ActiveHigh),
\* Polarity(ActiveLow), Edge(Rising), Edge(Falling), Edge(Both)
edge_or_polarity ==
    /\ eev.b.n # 0 /\ ~eev.b.fast
    /\ \E v \in {<<0, FALSE>>, <<0, TRUE>>, <<1, FALSE>>, <<2, FALSE>>, <<3, FALSE>>} :
        eev' = [eev EXCEPT !.b.sns = v[1], !.b.pol = v[2]]
    /\ UNCHANGED <<core, i2c, xfer, iwdg>>

\* SourceBuilder<N, true>::polarity: ActiveHigh, ActiveLow
polarity ==
    /\ eev.b.n # 0 /\ eev.b.fast
    /\ \E p \in BOOLEAN : eev' = [eev EXCEPT !.b.sns = 0, !.b.pol = p]
    /\ UNCHANGED <<core, i2c, xfer, iwdg>>

\* SourceBuilder<N, false>::filter, for the events 6 to 10; the filters tried
\* are None, HrtimN2 and EevsDiv32N8.
filter ==
    /\ eev.b.n >= 6 /\ ~eev.b.fast
    /\ \E v \in {0, 1, 15} : eev' = [eev EXCEPT !.b.f = v]
    /\ UNCHANGED <<core, i2c, xfer, iwdg>>

\* SourceBuilder<N, false>::fast, for the events 1 to 5: every field is
\* moved into the SourceBuilder<N, true>.
fast ==
    /\ eev.b.n \in 1..5 /\ ~eev.b.fast
    /\ eev' = [eev EXCEPT !.b.fast = TRUE]
    /\ UNCHANGED <<core, i2c, xfer, iwdg>>

\* finalize with a write of the whole register in place of modify: the
\* fields of the other events go back to their reset values
finalize_Write ==
    /\ eev.b.n # 0
    /\ eev.b.n >= 6 => ~eev.b.fast
    /\ LET b == eev.b
           zero == [src |-> 0, pol |-> FALSE, sns |-> 0, fast |-> FALSE, f |-> 0]
       IN eev' = [eev EXCEPT
                    !.regs = [m \in 1..10 |->
                                IF m # b.n
                                THEN IF (m <= 5) = (b.n <= 5) THEN zero ELSE eev.regs[m]
                                ELSE IF b.n <= 5
                                THEN [eev.regs[m] EXCEPT !.src = b.src, !.pol = b.pol,
                                                         !.sns = b.sns, !.fast = b.fast]
                                ELSE [eev.regs[m] EXCEPT !.src = b.src, !.pol = b.pol,
                                                         !.sns = b.sns, !.f = b.f]],
                    !.b = [b EXCEPT !.n = 0],
                    !.last = b]
    /\ UNCHANGED <<core, i2c, xfer, iwdg>>

\* ToExternalEventSource::finalize: eecr1.modify for the events 1 to 5 (any
\* IS_FAST), eecr2.modify and eecr3.modify for the events 6 to 10 (IS_FAST
\* = false only).
finalize ==
    /\ eev.b.n # 0
    /\ eev.b.n >= 6 => ~eev.b.fast
    /\ LET b == eev.b
       IN eev' = [eev EXCEPT
                    !.regs[b.n] = IF b.n <= 5
                                  THEN [@ EXCEPT !.src = b.src, !.pol = b.pol,
                                                 !.sns = b.sns, !.fast = b.fast]
                                  ELSE [@ EXCEPT !.src = b.src, !.pol = b.pol,
                                                 !.sns = b.sns, !.f = b.f],
                    !.b = [b EXCEPT !.n = 0],
                    !.last = b]
    /\ UNCHANGED <<core, i2c, xfer, iwdg>>

\* The drivers of parts 4 to 6 before any call: the I2C peripheral enabled
\* with its registers at their reset values on a free bus, the watchdog not
\* started, no external event configured.
PeripheralsInit ==
    /\ i2c = [isr |-> {"TXE"},
              cr2 |-> [add10 |-> FALSE, sadd |-> 0, rd_wrn |-> "write", start |-> FALSE,
                       nbytes |-> 0, reload |-> FALSE, autoend |-> FALSE],
              left |-> 0, role |-> "free"]
    /\ xfer = [entry |-> "none", a10 |-> FALSE, addr |-> 0, ops |-> <<>>, k |-> 0,
               i |-> 0, j |-> 0, io |-> <<>>, moved |-> 0, at |-> -1, saw |-> {},
               pc |-> "idle", ret |-> "none"]
    /\ iwdg = [pc |-> "idle", min |-> 0, max |-> 0, checks |-> FALSE, started |-> FALSE,
               div |-> 0, reload |-> 0, window |-> 0, panic |-> "", io |-> <<>>,
               sr |-> {}, pr |-> 4, rlr |-> MAX_COUNTER_VALUE, winr |-> MAX_COUNTER_VALUE]
    /\ eev = [regs |-> [n \in 1..10 |-> [src |-> 0, pol |-> FALSE, sns |-> 0,
                                         fast |-> FALSE, f |-> 0]],
              b |-> [n |-> 0, fast |-> FALSE, src |-> 0, sns |-> 0, pol |-> FALSE, f |-> 0],
              taken |-> {},
              last |-> [n |-> 0, fast |-> FALSE, src |-> 0, sns |-> 0, pol |-> FALSE, f |-> 0]]

\* The FMAC after power-on, before any driver call.
FmacInit ==
    /\ pc = "reset"
    /\ func = "none"
    /\ newArgs = NoSlices
    /\ cfg = NoSlices
    /\ sl = NoSlices
    /\ bases = NoBases
    /\ fmac = FmacReset
    /\ log = <<>>
    /\ panic = ""
    /\ io = <<>>
    /\ call = [op |-> "none", arg |-> 0]
    /\ ret = [kind |-> "none", v |-> 0]
    /\ nops = 0
    /\ task = Idle
    /\ hw = NoHw

Init ==
    /\ FmacInit
    /\ ObsInit
    /\ codec = CodecOff
    /\ PeripheralsInit

Next ==
    \/ IirConfig_new
    \/ fir_begin
    \/ iir_begin
    \/ write_x1
    \/ write_x2
    \/ write_y
    \/ fir_finish
    \/ iir_finish
    \/ read
    \/ write
    \/ HwStatus

Spec == Init /\ [][Next]_vars

\* Every runtime call on a live filter, with the buffers behind the flags.
IoNext ==
    \/ Handle_read
    \/ Handle_write
    \/ read_blocking
    \/ write_blocking
    \/ compute_blocking
    \/ poll_read
    \/ poll_write
    \/ HwCompute

IoStart ==
    /\ IoInit
    /\ ObsInit
    /\ codec = CodecOff
    /\ PeripheralsInit

SpecIO == IoStart /\ [][IoNext]_vars

\* write() called again and again, with no read, until it reports X1Full.
flood_write ==
    /\ ret # RetErrX1Full
    /\ WriteCall(300)

FloodNext ==
    \/ flood_write
    \/ HwCompute

SpecFlood == IoStart /\ [][FloodNext]_vars

\* A handle driven through compute_blocking only.  The spin loops poll again
\* and again and the filter keeps working: weak fairness of each.
ComputeNext ==
    \/ compute_blocking
    \/ poll_write
    \/ poll_read
    \/ HwCompute

SpecCompute ==
    /\ IoStart
    /\ [][ComputeNext]_vars
    /\ WF_vars(poll_write)
    /\ WF_vars(poll_read)
    /\ WF_vars(HwCompute)

\* The observation lock on its own.
SpecObs == Init /\ [][ObsNext]_vars

\* The conversions on their own.
CodecStart ==
    /\ FmacInit
    /\ ObsInit
    /\ CodecInit
    /\ PeripheralsInit

SpecCodec == CodecStart /\ [][CodecNext]_vars

\* The I2C driver on its own, with the bus.
SpecI2c ==
    Init /\ [][transaction \/ blocking_i2c \/ wait_bus \/ chunk \/ busy_wait \/ I2cBus]_vars

\* The watchdog on its own, with the update flags.
SpecIwdg ==
    Init /\ [][start_windowed \/ start \/ feed \/ start_windowed_step \/ IwdgHw]_vars

\* The external event builders on their own.
SpecEev ==
    Init /\ [][bind \/ edge_or_polarity \/ polarity \/ filter \/ fast \/ finalize]_vars

\* ====================================================================== claims
IsParamWrite(e) == e.reg = "PARAM" /\ e.op = "w"
IsParamRead(e) == e.reg = "PARAM" /\ e.op = "r"
IsBufCfgWrite(e) == e.reg \in {"x1bufcfg", "x2bufcfg", "ybufcfg"} /\ e.op = "w"
IsWdataWrite(e) == e.reg = "WDATA" /\ e.op = "w"
ParamWrites == SelectSeq(log, IsParamWrite)
FuncCodes == [i \in 1..Len(ParamWrites) |-> ParamWrites[i].val.func]
IsPrefix(s, t) == Len(s) <= Len(t) /\ \A i \in 1..Len(s) : s[i] = t[i]
StartAssertions ==
    {"write_x1: START set before load", "write_x1: START set after load",
     "write_x2: START set before load", "write_x2: START set after load",
     "write_y: START set before load", "write_y: START set after load"}

\* C1: IirConfig::new succeeds exactly when 2 <= len(B) <= 64,
\* 1 <= len(A) <= len(B)-1, len(B)+len(A) <= 255, len(X1) = len(B),
\* len(Y) = len(A) and the four lengths sum to at most 256; a rejected
\* configuration leaves no register access behind, and iir() only ever runs
\* on a configuration that satisfies all of these.
C1_Bounds(s) ==
    /\ 2 <= Len(s.b) /\ Len(s.b) <= 64
    /\ 1 <= Len(s.a) /\ Len(s.a) <= Len(s.b) - 1
    /\ Len(s.b) + Len(s.a) <= 255
    /\ Len(s.x1) = Len(s.b)
    /\ Len(s.y) = Len(s.a)
    /\ Len(s.x1) + Len(s.b) + Len(s.a) + Len(s.y) <= 256
C1_IirConfigNewExact ==
    /\ newArgs.some =>
        /\ cfg.some <=> C1_Bounds(newArgs)
        /\ ~cfg.some => /\ pc = "panicked" /\ func = "none"
                        /\ log = <<>> /\ fmac = FmacReset
    /\ func = "iir" => cfg.some /\ C1_Bounds(cfg) /\ sl = cfg
C1_Witness ==
    /\ newArgs.some /\ ~cfg.some /\ pc = "panicked" /\ log = <<>>
    /\ Len(newArgs.b) = 2 /\ Len(newArgs.a) = 1 /\ Len(newArgs.y) = 1
    /\ Len(newArgs.x1) = 3

\* C2: fir() called with len(X1) # len(X2), or with len(X1) outside 2..=127,
\* fails with no register write performed at all (no clock enable or reset,
\* no buffer configuration, PARAM or WDATA write).
C2_FirRejectsBeforeAnyWrite ==
    (/\ func = "fir" /\ pc = "panicked"
     /\ (Len(sl.x1) # Len(sl.b) \/ Len(sl.x1) \notin 2..127))
        => log = <<>>

\* C3: whenever a buffer configuration register has been programmed, the
\* three region sizes are each at most 255 and together at most 256, so that
\* base(Y) + N3 stays within the 256 slots of the accelerator memory.
C3_RegionsFitMemory ==
    (\E i \in 1..Len(log) : IsBufCfgWrite(log[i])) =>
        /\ Len(sl.x1) <= 255
        /\ Len(sl.b) + Len(sl.a) <= 255
        /\ Len(sl.y) <= 255
        /\ Len(sl.x1) + Len(sl.b) + Len(sl.a) + Len(sl.y) <= 256
        /\ (fmac.ybufcfg.size > 0 => fmac.ybufcfg.base + fmac.ybufcfg.size <= 256)

\* C4: every buffer configuration write carries base(X1) = 0,
\* base(X2) = len(X1), base(Y) = len(X1)+len(B)+len(A) and the region length
\* as size, all without truncation, and a completed configuration has
\* programmed each of the three registers exactly once.
C4_Expected(reg) ==
    IF reg = "x1bufcfg" THEN [base |-> 0, size |-> Len(sl.x1)]
    ELSE IF reg = "x2bufcfg" THEN [base |-> Len(sl.x1), size |-> Len(sl.b) + Len(sl.a)]
    ELSE [base |-> Len(sl.x1) + Len(sl.b) + Len(sl.a), size |-> Len(sl.y)]
C4_BaseAddresses ==
    /\ \A i \in 1..Len(log) :
        IsBufCfgWrite(log[i]) =>
            /\ log[i].val.base = C4_Expected(log[i].reg).base
            /\ log[i].val.size = C4_Expected(log[i].reg).size
            /\ log[i].val.base <= 255 /\ log[i].val.size <= 255
            /\ fmac[log[i].reg].base = log[i].val.base
            /\ fmac[log[i].reg].size = log[i].val.size
    /\ pc \in {"finish", "running"} =>
        \A reg \in {"x1bufcfg", "x2bufcfg", "ybufcfg"} :
            Cardinality({i \in 1..Len(log) : log[i].reg = reg}) = 1
C4_Witness ==
    /\ pc = "running" /\ func = "iir"
    /\ Len(sl.b) = 64 /\ Len(sl.a) = 63
    /\ fmac.ybufcfg.base = 191

\* C5: the clock domain is enabled, then reset, before any accelerator
\* register is accessed; PARAM is written with the function codes 1, 2, 3 and
\* then 8 (FIR) or 9 (IIR), four writes in a completed configuration; the
\* write that arms the filter is the last access and comes after the three
\* loads have completed.
C5_ConfigurationOrder ==
    /\ log # <<>> =>
        /\ Len(log) >= 2
        /\ log[1].reg = "RCC.enable"
        /\ log[2].reg = "RCC.reset"
    /\ \A i \in 3..Len(log) : log[i].reg \notin {"RCC.enable", "RCC.reset"}
    /\ IsPrefix(FuncCodes, <<1, 2, 3, IF func = "iir" THEN 9 ELSE 8>>)
    /\ pc = "running" => Len(FuncCodes) = 4
    /\ \A i \in 1..Len(log) :
        (IsParamWrite(log[i]) /\ log[i].val.func \in {8, 9}) =>
            /\ i = Len(log)
            /\ pc = "running"
            /\ IsParamRead(log[i - 1]) /\ log[i - 1].val.start = 0
            /\ Cardinality({j \in 1..(i - 1) : IsWdataWrite(log[j])})
                   = Len(sl.x1) + Len(sl.b) + Len(sl.a) + Len(sl.y)
            /\ Cardinality({j \in 1..(i - 1) : IsBufCfgWrite(log[j])}) = 3
C5_Witness ==
    /\ pc = "running" /\ func = "iir"
    /\ FuncCodes = <<1, 2, 3, 9>>

\* C6: with hardware that clears START when the announced number of values
\* has been streamed, START reads clear at every assertion of every accepted
\* configuration (a zero-length Y region included), so a load command is only
\* issued when no load is in flight.
C6_StartClearAtEveryAssertion ==
    /\ panic \notin StartAssertions
    /\ \A i \in 1..Len(log) : IsParamRead(log[i]) => log[i].val.start = 0
    /\ \A i \in 1..Len(log) :
        (IsParamWrite(log[i]) /\ IsLoad(log[i].val)) =>
            /\ i >= 3
            /\ IsParamRead(log[i - 2]) /\ log[i - 2].val.start = 0
            /\ IsBufCfgWrite(log[i - 1])
    /\ pc \in {"write_x2", "write_y", "finish"} =>
        fmac.param.start = 0 /\ fmac.remaining = 0
C6_Witness ==
    /\ pc = "running" /\ func = "fir"
    /\ Len(sl.y) = 0 /\ Len(sl.x1) = 127
    /\ Cardinality({i \in 1..Len(log) : IsParamRead(log[i])}) = 6

\* C7: after each load command exactly the elements of its region follow as
\* WDATA writes, one per element and in array order (for X2 all of B, then
\* all of A), up to the next PARAM access, and their number equals the number
\* announced in P (and Q).
C7_Region(fc) ==
    IF fc = LoadX1 THEN sl.x1 ELSE IF fc = LoadX2 THEN sl.b \o sl.a ELSE sl.y
C7_Bits(v) == IF v < 0 THEN 65536 + v ELSE v
C7_StreamedInOrder ==
    \A i \in 1..Len(log) :
        (IsParamWrite(log[i]) /\ IsLoad(log[i].val)) =>
            LET src == C7_Region(log[i].val.func)
                n == Len(src)
            IN /\ i + n + 1 <= Len(log)
               /\ \A j \in 1..n :
                    /\ IsWdataWrite(log[i + j])
                    /\ log[i + j].val = C7_Bits(src[j])
               /\ log[i + n + 1].reg = "PARAM"
               /\ n = Announced(log[i].val)
C7_Witness ==
    /\ pc = "running" /\ func = "iir"
    /\ Len(sl.b) = 3 /\ Len(sl.a) = 2
    /\ Cardinality({i \in 1..Len(log) : IsWdataWrite(log[i])}) = 10

\* C8: the last PARAM write of a configuration has START = 1, R = the gain
\* exponent (0..7), and P = len(X1), Q = 0, FUNC = 8 for FIR, P = len(B),
\* Q = len(A), FUNC = 9 for IIR; every P and Q written is the untruncated
\* length it stands for.
C8_FinalParam ==
    /\ pc = "running" =>
        LET v == log[Len(log)].val
        IN /\ IsParamWrite(log[Len(log)])
           /\ v.start = 1
           /\ v.r = sl.r /\ v.r \in 0..7
           /\ func = "fir" => v.p = Len(sl.x1) /\ v.q = 0 /\ v.func = 8
           /\ func = "iir" => v.p = Len(sl.b) /\ v.q = Len(sl.a) /\ v.func = 9
           /\ fmac.param = v
    /\ \A i \in 1..Len(log) :
        IsParamWrite(log[i]) =>
            LET v == log[i].val
            IN /\ v.p \in 0..255 /\ v.q \in 0..255
               /\ v.func = LoadX1 => v.p = Len(sl.x1) /\ v.q = 0
               /\ v.func = LoadX2 => v.p = Len(sl.b) /\ v.q = Len(sl.a)
               /\ v.func = LoadY => v.p = Len(sl.y) /\ v.q = 0
C8_Witness ==
    /\ pc = "running" /\ func = "iir"
    /\ Len(sl.b) = 64 /\ Len(sl.a) = 63 /\ sl.r = 7
    /\ fmac.param.start = 1

\* C9: a call of write() reads the status once; with input-full set it
\* returns X1Full and writes nothing, otherwise it writes the two's complement
\* pattern of the sample to WDATA exactly once and returns Ok.
C9_WriteAtMostOnce ==
    call.op = "write" =>
        /\ Len(io) >= 1 /\ io[1].reg = "SR" /\ io[1].op = "r"
        /\ ret.kind \in {"Ok", "Err(X1Full)"}
        /\ Cardinality({i \in 1..Len(io) : IsWdataWrite(io[i])}) <= 1
        /\ io[1].val.x1full => ret.kind = "Err(X1Full)" /\ Len(io) = 1
        /\ ~io[1].val.x1full =>
            /\ ret.kind = "Ok" /\ Len(io) = 2
            /\ IsWdataWrite(io[2])
            /\ io[2].val = C7_Bits(call.arg)
C9_Witness ==
    /\ call.op = "write" /\ ret.kind = "Err(X1Full)"
    /\ io = <<RSr(fmac)>> /\ fmac.x1full

\* C10: a call of read() reads the status once; with output-empty set it
\* returns no value and accesses no other register, otherwise it reads RDATA
\* exactly once and returns that value decoded as a signed 16-bit pattern; it
\* writes no register and returns no error.
C10_Decoded(u) == IF u < 32768 THEN u ELSE u - 65536
C10_ReadNonBlocking ==
    call.op = "read" =>
        /\ Len(io) >= 1 /\ io[1].reg = "SR" /\ io[1].op = "r"
        /\ ret.kind \in {"None", "Some"}
        /\ \A i \in 1..Len(io) : io[i].op = "r"
        /\ io[1].val.yempty => ret.kind = "None" /\ Len(io) = 1
        /\ ~io[1].val.yempty =>
            /\ Len(io) = 2
            /\ io[2].reg = "RDATA"
            /\ ret.kind = "Some" /\ ret.v = C10_Decoded(io[2].val)
C10_Witness ==
    /\ call.op = "read" /\ ret.kind = "None"
    /\ io = <<RSr(fmac)>> /\ fmac.yempty

\* ---------------------------------------------------------- runtime claims
IsSrRead(e) == e.reg = "SR" /\ e.op = "r"
IsRdataRead(e) == e.reg = "RDATA" /\ e.op = "r"
SawFull(e) == IsSrRead(e) /\ e.val.x1full
SawEmpty(e) == IsSrRead(e) /\ e.val.yempty
Indices(s, Test(_)) == {i \in 1..Len(s) : Test(s[i])}
\* Calls of write that have returned Ok in a run that stops at the first error.
OkWrites == IF ret = RetErrX1Full THEN nops - 1 ELSE nops

C12_WriteThenRead ==
    LET ws == Indices(io, IsWdataWrite)
        rs == Indices(io, IsRdataRead)
    IN call.op = "compute_blocking" =>
        /\ Cardinality(ws) <= 1 /\ Cardinality(rs) <= 1
        /\ \A r \in rs : \E w \in ws : w < r
        /\ \A w \in ws : io[w].val = ToBitsU16(call.arg)
        /\ ~Busy =>
            /\ Cardinality(ws) = 1 /\ Cardinality(rs) = 1
            /\ \A r \in rs : ret = RetValue(FromBitsI16(io[r].val))
            /\ hw.pre = 0 =>
                /\ hw.nin = nops /\ hw.nrd = nops
                /\ ret = RetValue(FromBitsI16(OutputValue(nops)))

C13_ReadBlocking ==
    LET n == Len(io)
    IN call.op = "read_blocking" =>
        IF Busy
        THEN /\ \A i \in 1..n : SawEmpty(io[i])
             /\ ret = RetPending
        ELSE /\ n >= 2
             /\ \A i \in 1..(n - 2) : SawEmpty(io[i])
             /\ IsSrRead(io[n - 1]) /\ ~io[n - 1].val.yempty
             /\ IsRdataRead(io[n])
             /\ ret = RetValue(FromBitsI16(io[n].val))

\* read_blocking has returned a value after a poll that found nothing.
C13_Witness ==
    /\ call.op = "read_blocking" /\ ~Busy
    /\ Len(io) >= 3
    /\ ret.kind = "value"

\* C14: write_blocking(s) retries until write succeeds: no WDATA write at a
\* poll that sees input-full set, exactly one WDATA write of s over the whole
\* call, at the first poll that sees input-full clear, after which it returns.
C14_WriteBlocking ==
    LET n == Len(io)
    IN call.op = "write_blocking" =>
        IF Busy
        THEN /\ \A i \in 1..n : SawFull(io[i])
             /\ ret = RetPending
        ELSE /\ n >= 2
             /\ \A i \in 1..(n - 2) : SawFull(io[i])
             /\ IsSrRead(io[n - 1]) /\ ~io[n - 1].val.x1full
             /\ IsWdataWrite(io[n]) /\ io[n].val = ToBitsU16(call.arg)
             /\ ret = RetUnit

\* write_blocking has written its sample after a poll that found X1 full.
C14_Witness ==
    /\ call.op = "write_blocking" /\ ~Busy
    /\ Len(io) >= 3
    /\ ret = RetUnit

\* C19: on a handle returned by fir()/iir(), read, write, read_blocking,
\* write_blocking and compute_blocking access only SR (read), RDATA (read) and
\* WDATA (write); PARAM and the three buffer configuration registers keep the
\* values fir()/iir() gave them: function, P, Q, R and the layout stay.
C19_ConfigurationFrame ==
    LET armed == ArmedFmac(func, sl)
    IN /\ fmac.param = armed.param
       /\ fmac.x1bufcfg = armed.x1bufcfg
       /\ fmac.x2bufcfg = armed.x2bufcfg
       /\ fmac.ybufcfg = armed.ybufcfg
       /\ fmac.param.func = (IF func = "fir" THEN FuncFir ELSE FuncIir)
       /\ \A i \in 1..Len(io) :
            \/ IsSrRead(io[i])
            \/ IsRdataRead(io[i])
            \/ IsWdataWrite(io[i])

\* Two calls have completed, the last one a compute_blocking that wrote a
\* sample and read an output.
C19_Witness ==
    /\ nops = 2 /\ ~Busy
    /\ call.op = "compute_blocking"
    /\ hw.nin >= 1 /\ hw.nrd >= 1

\* ------------------------------------------------- observation lock claims
\* C15: a resource is exclusive again only when every one of the N tokens
\* issued by its own observe call has been given back: an Observed that
\* release has consumed has all N of its tokens returned.
C15_OwnTokensOnly ==
    \A w \in Wrappers : ~obs[w].alive => tokens[w].returned = obs[w].n

\* C16: while a token of a resource exists, the resource has the
\* configuration it had when it was observed.
C16_FixedWhileTokensLive ==
    \A w \in Wrappers : Outstanding(w) > 0 => mode[obs[w].origin] = obs[w].ty

C18_ObserveCreatesExactlyN ==
    /\ Len(tokens) = Len(obs)
    /\ \A w \in Wrappers :
        /\ tokens[w].caller + tokens[w].user + tokens[w].returned = obs[w].n
        /\ Cardinality({i \in Instances : owner[i] = w}) = IF obs[w].alive THEN 1 ELSE 0
        /\ obs[w].alive => owner[obs[w].inner] = w
    /\ \A i \in Instances : owner[i] \in {0} \cup Wrappers
    /\ \A i \in Instances, n \in 0..MaxTokens :
        (Exclusive(i) /\ Len(obs) < MaxObserve) => ENABLED Observe(i, n)

\* Two observe calls were made, one of them with two observers, and tokens
\* have been moved on and given to release since.
C18_Witness ==
    /\ Len(obs) = 2
    /\ \E w \in Wrappers :
        obs[w].n = 2 /\ tokens[w].user = 1 /\ tokens[w].returned = 1

\* ------------------------------------------------------- conversion claim
\* C20: the WDATA encoding (to_bits as u16) and the RDATA decoding (bits as
\* i16, from_bits) are inverse to each other on every 16-bit pattern and on
\* every sample; every pattern decodes to a sample bits / 2^15 in [-1, 1), so
\* the value 1.0 (bits 2^15) has no encoding.
C20_BitExactQ15 ==
    /\ codec.stage = "back" => codec.out = codec.in
    /\ (codec.from = "bits" /\ codec.stage \in {"converted", "back"}) =>
        /\ -(2^15) <= codec.mid /\ codec.mid < 2^15
    /\ (codec.from = "sample" /\ codec.stage \in {"converted", "back"}) =>
        /\ 0 <= codec.mid /\ codec.mid < 2^16

\* The pattern 0x8000 was decoded to -1.0 and encoded back.
C20_Witness ==
    /\ codec.from = "bits" /\ codec.stage = "back"
    /\ codec.in = 2^15
    /\ codec.mid = -(2^15)

\* ---------------------------------------------------- example program claim
\* C21: the IirConfig of examples/fmac.rs (two X1 values, one B, one A, two Y
\* values, gain X1) is accepted by IirConfig::new: the call does not panic.
C21_ExampleAccepted ==
    (/\ newArgs.some
     /\ Len(newArgs.x1) = 2 /\ Len(newArgs.b) = 1
     /\ Len(newArgs.a) = 1 /\ Len(newArgs.y) = 2
     /\ newArgs.r = 0)
    => pc # "panicked"

\* ------------------------------------------------------------- I2C claims
\* C23: when an I2C call returns BusError, ArbitrationLost or Nack, the driver
\* has cleared the fault flags and flushed the transmit state: no fault flag
\* reads as set, TXIS is clear and the transmit register is empty (TXE set).
C23_FaultsLeaveBusReady ==
    (xfer.pc = "returned" /\ xfer.ret \in {"BusError", "ArbitrationLost", "Nack"}) =>
        /\ i2c.isr \cap {"BERR", "ARLO", "NACKF"} = {}
        /\ "TXIS" \notin i2c.isr
        /\ "TXE" \in i2c.isr


\* Accesses of the trace of an I2C call
IsStartWrite(e) == e.reg = "CR2" /\ e.op = "w" /\ e.val.start
IsBusyClearRead(e) == e.reg = "ISR" /\ e.op = "r" /\ "BUSY" \notin e.val
IsReturn(e) == e.op = "ret"
IsFault(e) == e.op = "ret" /\ e.val # "Ok"

\* C24: every START the driver issues (a CR2 write with START set) is
\* preceded by a read of ISR that showed BUSY clear, made after the previous
\* operation of the call returned, in transaction() and in the blocking
\* read, write and write_read.
C24_StartAfterBusyClear ==
    \A n \in 1..Len(xfer.io) :
        IsStartWrite(xfer.io[n]) =>
            \E m \in 1..(n - 1) :
                /\ IsBusyClearRead(xfer.io[m])
                /\ \A q \in m..n : ~IsReturn(xfer.io[q])

\* C25: a bus fault is never retried: the operation that fails ends the call
\* with its error, so the fault is the last entry of the trace of the call
\* (no later operation, no further START) and the call has returned it.
C25_FaultEndsCall ==
    \A n \in 1..Len(xfer.io) :
        IsFault(xfer.io[n]) =>
            /\ n = Len(xfer.io)
            /\ xfer.pc = "returned"
            /\ xfer.ret = xfer.io[n].val
            /\ xfer.k = xfer.io[n].k

\* C25 witness: a call of several operations has returned the fault of an
\* operation that was not its last.
C25_Witness ==
    /\ xfer.pc = "returned"
    /\ xfer.ret \in {"BusError", "ArbitrationLost", "Nack"}
    /\ xfer.k < Len(xfer.ops)
    /\ \E n \in 1..Len(xfer.io) : IsStartWrite(xfer.io[n])


IsCr2Write(e) == e.reg = "CR2" /\ e.op = "w"
IsStopSeen(e) == e.reg = "ISR" /\ e.op = "r" /\ "STOPF" \in e.val
IsStopClear(e) == e.reg = "ICR" /\ e.op = "w" /\ "STOPF" \in e.val
StartsOf(k) == {n \in 1..Len(xfer.io) : IsStartWrite(xfer.io[n]) /\ xfer.io[n].k = k}

\* C28: for every non-empty buffer, when read_inner / write_inner reach the
\* final wait for STOPF, the last chunk they programmed has RELOAD completed
\* and AUTOEND automatic, and every earlier chunk of the operation has RELOAD
\* not completed.
C28_FinalChunkAutoEnd ==
    (xfer.pc = "stopf" /\ xfer.ops[xfer.k].len > 0) =>
        \E n \in 1..Len(xfer.io) :
            /\ IsCr2Write(xfer.io[n]) /\ xfer.io[n].k = xfer.k
            /\ ~xfer.io[n].val.reload /\ xfer.io[n].val.autoend
            /\ \A q \in 1..Len(xfer.io) :
                  (IsCr2Write(xfer.io[q]) /\ xfer.io[q].k = xfer.k /\ q # n) =>
                      (q < n /\ xfer.io[q].val.reload)

\* C29: an operation returns Ok only after its STOP was observed and STOPF
\* cleared: every Ok in the trace of a call directly follows a read of ISR
\* that showed STOPF and a write of STOPCF, both of the same operation.
C29_OkAfterStop ==
    \A n \in 1..Len(xfer.io) :
        (xfer.io[n].op = "ret" /\ xfer.io[n].val = "Ok") =>
            /\ n >= 3
            /\ IsStopClear(xfer.io[n - 1]) /\ xfer.io[n - 1].k = xfer.io[n].k
            /\ IsStopSeen(xfer.io[n - 2]) /\ xfer.io[n - 2].k = xfer.io[n].k

\* C30: every operation issues exactly one START, carrying the address and
\* the direction, before any other CR2 write of the operation; an operation
\* that waits for a flag or has returned Ok has issued its START.
C30_ExactlyOneStart ==
    /\ \A n \in 1..Len(xfer.io) :
          IsStartWrite(xfer.io[n]) =>
              /\ xfer.io[n].val.rd_wrn = xfer.ops[xfer.io[n].k].dir
              /\ xfer.io[n].val.add10 = xfer.a10
              /\ xfer.io[n].val.sadd = IF xfer.a10 THEN xfer.addr ELSE 2 * xfer.addr
              /\ \A q \in 1..(n - 1) :
                    ~(IsCr2Write(xfer.io[q]) /\ xfer.io[q].k = xfer.io[n].k)
    /\ xfer.pc \in {"byte", "tcr", "stopf"} => Cardinality(StartsOf(xfer.k)) = 1
    /\ \A n \in 1..Len(xfer.io) :
          (xfer.io[n].op = "ret" /\ xfer.io[n].val = "Ok") =>
              Cardinality(StartsOf(xfer.io[n].k)) = 1


\* ms * 32 / div in unbounded arithmetic (div is a power of two from 4 to 256)
C27_Counts(ms, div) == IF div >= 32 THEN ms \div (div \div 32) ELSE ms * (32 \div div)

\* C27: for every (min, max) whose prescaler selection succeeds,
\* start_windowed computes reload = max * 32 / divider <= 0xFFF and programs
\* the window register with reload - min * 32 / divider, computed without
\* overflow or underflow and lying in 0..reload; with min = 0 (start) the
\* window register equals the reload register.
C27_WindowWithinReload ==
    /\ iwdg.panic \in {"", "IWDG max time is greater than is possible"}
    /\ iwdg.pc \in {"rvu", "wvu2", "sr"} =>
          /\ iwdg.reload = C27_Counts(iwdg.max, iwdg.div)
          /\ iwdg.reload <= MAX_COUNTER_VALUE
    /\ iwdg.pc = "sr" =>
          /\ iwdg.rlr = iwdg.reload
          /\ iwdg.winr = iwdg.reload - C27_Counts(iwdg.min, iwdg.div)
          /\ iwdg.winr \in 0..iwdg.reload
          /\ iwdg.min = 0 => iwdg.winr = iwdg.rlr


\* C26: an external event finalized in fast mode is level sensitive: whatever
\* builder calls came before finalize, a register slot written with the fast
\* bit set has the sensitivity field 0b00.
C26_FastIsLevelSensitive ==
    /\ eev.last.fast => eev.last.sns = 0
    /\ \A n \in 1..10 : eev.regs[n].fast => eev.regs[n].sns = 0


RECURSIVE C31_Nbytes(_, _)
\* NBYTES summed over the CR2 writes of operation k among the first n accesses
C31_Nbytes(k, n) ==
    IF n = 0 THEN 0
    ELSE C31_Nbytes(k, n - 1)
         + (IF IsCr2Write(xfer.io[n]) /\ xfer.io[n].k = k THEN xfer.io[n].val.nbytes ELSE 0)

\* C31: an operation on L bytes makes its data accesses (RXDR reads, TXDR
\* writes) at the buffer positions 0, 1, 2, ... in order, each after a poll
\* that showed RXNE (read) or TXIS (write), and has made exactly L of them
\* when it reaches its end; the NBYTES programmed for the chunks of a
\* non-empty buffer are each in 1..255 and sum to L.
C31_DataOncePerByte ==
    /\ xfer.moved > 0 =>
          /\ xfer.at = xfer.moved - 1
          /\ (IF xfer.ops[xfer.k].dir = "read" THEN "RXNE" ELSE "TXIS") \in xfer.saw
    /\ (xfer.pc = "stopf" \/ (xfer.pc = "returned" /\ xfer.ret = "Ok" /\ xfer.ops # <<>>)) =>
          xfer.moved = xfer.ops[xfer.k].len
    /\ \A n \in 1..Len(xfer.io) :
          (IsCr2Write(xfer.io[n]) /\ xfer.ops[xfer.io[n].k].len > 0) =>
              xfer.io[n].val.nbytes \in 1..ChunkLen
    /\ (xfer.pc = "stopf" /\ xfer.ops[xfer.k].len > 0) =>
          C31_Nbytes(xfer.k, Len(xfer.io)) = xfer.ops[xfer.k].len

\* C31 witness: a read of one chunk and one byte has returned Ok after 256
\* data accesses.
C31_Witness ==
    /\ xfer.pc = "returned" /\ xfer.ret = "Ok"
    /\ xfer.ops # <<>> /\ xfer.ops[xfer.k].dir = "read"
    /\ xfer.ops[xfer.k].len = ChunkLen + 1
    /\ xfer.moved = ChunkLen + 1 /\ xfer.at = ChunkLen


Faults == {"BERR", "ARLO", "NACKF"}
\* The flag a wait of the driver is for
Awaited ==
    CASE xfer.pc = "byte" -> IF xfer.ops[xfer.k].dir = "read" THEN "RXNE" ELSE "TXIS"
      [] xfer.pc = "tcr" -> "TCR"
      [] xfer.pc = "stopf" -> "STOPF"
      [] OTHER -> "none"

\* C32: in every poll of a wait that ends the wait, the awaited flag goes
\* before the fault flags (the wait goes on without an error and clears no
\* fault flag when the awaited flag is set), and otherwise the first of
\* BERR, ARLO, NACKF that is set decides the one error returned; only the
\* flag of that fault is cleared (with STOPF for Nack), the other fault flags
\* stay as they were.
C32_OnePoll ==
    (xfer.pc \in {"byte", "tcr", "stopf"} /\ xfer' # xfer) =>
        LET isr == i2c.isr
            kept(F) == i2c'.isr \cap Faults = (isr \cap Faults) \ F
        IN /\ Awaited \in isr =>
                 /\ xfer'.ret \in {"pending", "Ok"}
                 /\ kept({})
           /\ (Awaited \notin isr /\ "BERR" \in isr) =>
                 /\ xfer'.ret = "BusError" /\ xfer'.pc = "returned"
                 /\ kept({"BERR"})
                 /\ ("STOPF" \in i2c'.isr) = ("STOPF" \in isr)
           /\ (Awaited \notin isr /\ "BERR" \notin isr /\ "ARLO" \in isr) =>
                 /\ xfer'.ret = "ArbitrationLost" /\ xfer'.pc = "returned"
                 /\ kept({"ARLO"})
                 /\ ("STOPF" \in i2c'.isr) = ("STOPF" \in isr)
           /\ (Awaited \notin isr /\ isr \cap Faults = {"NACKF"}) =>
                 /\ xfer'.ret = "Nack" /\ xfer'.pc = "returned"
                 /\ kept({"NACKF"})
                 /\ "STOPF" \notin i2c'.isr

C32_Precedence == [][C32_OnePoll]_vars

\* C32 witness: with all three faults raised the call returned BusError and
\* the flags of the two other faults are still set.
C32_Witness ==
    /\ xfer.pc = "returned" /\ xfer.ret = "BusError"
    /\ i2c.isr \cap Faults = {"ARLO", "NACKF"}


\* The divider the table of the reference values asks for
C33_Divider(ms) ==
    CASE ms <= 511 -> 4
      [] ms > 511 /\ ms <= 1023 -> 8
      [] ms > 1023 /\ ms <= 2047 -> 16
      [] ms > 2047 /\ ms <= 4095 -> 32
      [] ms > 4095 /\ ms <= 8190 -> 64
      [] ms > 8190 /\ ms <= 16380 -> 128
      [] ms > 16380 /\ ms <= 32760 -> 256
      [] OTHER -> 0

\* C33: start_windowed selects the smallest divider of /4 ... /256 whose
\* maximum (511, 1023, 2047, 4095, 8190, 16380, 32760 ms) is at least
\* max_window_time and programs PR with it; it panics with "IWDG max time is
\* greater than is possible" exactly when max_window_time exceeds 32760 ms.
C33_SmallestPrescaler ==
    iwdg.started =>
        /\ (iwdg.max > 32760) =
              (iwdg.pc = "panicked"
               /\ iwdg.panic = "IWDG max time is greater than is possible")
        /\ iwdg.max <= 32760 => iwdg.div = C33_Divider(iwdg.max)
        /\ iwdg.pc \in {"wvu", "rvu", "wvu2", "sr", "done"} => iwdg.pr = C33_Divider(iwdg.max)

\* C33 witness: a call with 512 ms, one more than the maximum of /4, has
\* finished with the divider /8 in PR.
C33_Witness ==
    /\ iwdg.pc = "done" /\ iwdg.max = 512
    /\ iwdg.div = 8 /\ iwdg.pr = 8


\* C34: a start_windowed call that fails because max_window_time is greater
\* than is possible has written no register (no key, PR, RLR or WINR) and has
\* not started the watchdog.
C34_FailureLeavesUntouched ==
    (iwdg.pc = "panicked" /\ iwdg.panic = "IWDG max time is greater than is possible") =>
        /\ ~iwdg.started
        /\ \A n \in 1..Len(iwdg.io) : iwdg.io[n].op # "w"


\* The trace iwdg.io is that of a start_windowed call (feed leaves a trace of
\* one access)
C35_InCall ==
    \/ iwdg.pc \in {"pvu", "wvu", "rvu", "wvu2", "sr", "panicked"}
    \/ iwdg.pc = "done" /\ Len(iwdg.io) > 1
C35_IsWrite(e, reg) == e.op = "w" /\ e.reg = reg
C35_ReadClear(e, flag) == e.op = "r" /\ e.reg = "SR" /\ flag \notin e.val
C35_Gated(reg, flag) ==
    \A n \in 1..Len(iwdg.io) :
        C35_IsWrite(iwdg.io[n], reg) =>
            n > 1 /\ C35_ReadClear(iwdg.io[n - 1], flag)
C35_Writes(reg) == Cardinality({n \in 1..Len(iwdg.io) : C35_IsWrite(iwdg.io[n], reg)})

\* C35: in start_windowed the start key and the enable key are the first two
\* accesses; PR is written right after a read of SR with PVU clear, RLR after
\* one with RVU clear, each WINR write after one with WVU clear; a call that
\* has returned wrote PR and RLR once and WINR twice, and its last two
\* accesses are a read of SR as 0 and the feed that follows it.
C35_GatedAndOrdered ==
    C35_InCall =>
        /\ Len(iwdg.io) >= 2
        /\ C35_IsWrite(iwdg.io[1], "KR") /\ iwdg.io[1].val = "start"
        /\ C35_IsWrite(iwdg.io[2], "KR") /\ iwdg.io[2].val = "enable"
        /\ C35_Gated("PR", "PVU") /\ C35_Gated("RLR", "RVU") /\ C35_Gated("WINR", "WVU")
        /\ iwdg.pc = "done" =>
              LET n == Len(iwdg.io)
              IN /\ C35_Writes("PR") = 1 /\ C35_Writes("RLR") = 1 /\ C35_Writes("WINR") = 2
                 /\ \E p, r, w \in 1..n :
                       /\ C35_IsWrite(iwdg.io[p], "PR") /\ C35_IsWrite(iwdg.io[r], "RLR")
                       /\ C35_IsWrite(iwdg.io[w], "WINR")
                       /\ 2 < p /\ p < r /\ r < w
                 /\ iwdg.io[n - 1].op = "r" /\ iwdg.io[n - 1].reg = "SR"
                 /\ iwdg.io[n - 1].val = {}
                 /\ C35_IsWrite(iwdg.io[n], "KR") /\ iwdg.io[n].val = "reset"

\* C35 witness: a windowed call (min > 0) has returned.
C35_Witness ==
    /\ iwdg.pc = "done" /\ Len(iwdg.io) > 1
    /\ iwdg.min > 0 /\ iwdg.winr < iwdg.rlr


\* C36: a builder starts level sensitive, active high and without filter;
\* finalize for event N writes the source, polarity and sensitivity of the
\* builder, with the fast bit for the events 1..5 and the filter for the
\* events 6..10, into the fields of event N and leaves the fields of every
\* other event as they were; no filter is written for the events 1..5.
C36_OneStep ==
    /\ (eev.b.n = 0 /\ eev'.b.n # 0) =>
          (eev'.b.sns = 0 /\ ~eev'.b.pol /\ eev'.b.f = 0)
    /\ (eev.b.n # 0 /\ eev'.b.n = 0) =>
          LET b == eev.b
              old == eev.regs[b.n]
              new == eev'.regs[b.n]
          IN /\ \A m \in (1..10) \ {b.n} : eev'.regs[m] = eev.regs[m]
             /\ new.src = b.src /\ new.pol = b.pol /\ new.sns = b.sns
             /\ b.n <= 5 => (new.fast = b.fast /\ new.f = old.f /\ new.f = 0)
             /\ b.n >= 6 => (new.f = b.f /\ new.fast = old.fast)

C36_FinalizeFrame == [][C36_OneStep]_vars

\* C36 witness: two events have been finalized, the second one with an edge
\* sensitivity, and the first one still has the active-low polarity it was
\* given.
C36_Witness ==
    /\ Cardinality(eev.taken) = 2 /\ eev.b.n = 0 /\ eev.last.n # 0
    /\ eev.regs[eev.last.n].sns = eev.last.sns /\ eev.last.sns # 0
    /\ \E m \in eev.taken \ {eev.last.n} : eev.regs[m].pol

=============================================================================
